---------------------------- MODULE Spec2Model ----------------------------
(***************************************************************************)
(* Model of the metadata embedding engine of free-Image-metagen:           *)
(* the JPEG, PNG, WebP, GIF and SVG embedders and the orchestrator         *)
(* (embedMetadataIntoImage) that dispatches to them.                       *)
(*                                                                         *)
(* Conventions.  A byte buffer (Uint8Array) is a sequence of 0..255.  A    *)
(* JavaScript string is the sequence of its UTF-16 code units; an absent   *)
(* (undefined) optional field and the empty string are both <<>>, because  *)
(* every test the code makes on a field is a truthiness test.  Offsets     *)
(* passed to operators are 0-based, as in the source.                      *)
(***************************************************************************)
EXTENDS Integers, Sequences, FiniteSets, TLC

VARIABLES
  file,      \* the File: [name, type, bytes]
  output,    \* the MetaGenOutput given to the orchestrator
  settings,  \* the EmbedSettings given to the orchestrator
  meta,      \* the EmbedMetadataInput given to an embedder
  pc,        \* "start", then the name of the operation applied last
  input,     \* the bytes the last embedder call consumed
  res,       \* the last embedder call's outcome: [kind, bytes]
  calls,     \* number of embedder calls made in sequence
  ret,       \* what embedMetadataIntoImage gave its caller:
             \* [state, blob, type, filename, embedded]
  \* the dashboard component (MetaGenDashboard)
  apiKeys,         \* the keys stored for the provider in use
  activeKeyIndex,  \* the index (from 0) of the key marked active
  items,           \* the batch: a sequence of [id, status]
  isGenerating,    \* React state behind the Generate button
  isPaused,        \* React state behind the Pause button
  pauseRef,        \* the ref the generation loop polls
  runs,            \* the runGeneration calls made: their closures and positions
  now,             \* Date.now(), in ms
  lastAt,          \* the rate limiter's lastAt
  requests,        \* the last two provider generation requests: [at, key, run]
  nextId,          \* the ids makeId has handed out
  \* the download button (DownloadWithEmbeddingButton)
  processedFiles,  \* the filenames of the processed files, in order
  zip              \* the archive: a sequence of [name, blob], blob the index
                   \* of the processed file the entry holds

embedVars == <<file, output, settings, meta, pc, input, res, calls, ret>>
dashVars == <<apiKeys, activeKeyIndex, items, isGenerating, isPaused, pauseRef, runs, now,
              lastAt, requests, nextId>>
zipVars == <<processedFiles, zip>>
vars == <<embedVars, dashVars, zipVars>>

\* the dashboard before anything is uploaded, with no key stored
DashboardIdle ==
  /\ apiKeys = <<>>
  /\ activeKeyIndex = 0
  /\ items = <<>>
  /\ isGenerating = FALSE
  /\ isPaused = FALSE
  /\ pauseRef = FALSE
  /\ runs = <<>>
  /\ now = 0
  /\ lastAt = 0
  /\ requests = <<>>
  /\ nextId = 1

\* the download button with nothing to download
DownloadIdle ==
  /\ processedFiles = <<>>
  /\ zip = <<>>

---------------------------------------------------------------------------
(* Generic helpers                                                         *)

Min(a, b) == IF a < b THEN a ELSE b

RECURSIVE Flatten(_)
Flatten(ss) == IF Len(ss) = 0 THEN <<>> ELSE Head(ss) \o Flatten(Tail(ss))

Zeros(n) == [i \in 1..n |-> 0]

\* d[off] read inside a bitwise expression: an out-of-range read is undefined,
\* which the bitwise operators turn into 0.
ByteAt(d, off) == IF off >= 0 /\ off < Len(d) THEN d[off + 1] ELSE 0

\* d[off] === v (false for an out-of-range read)
Is(d, off, v) == off >= 0 /\ off < Len(d) /\ d[off + 1] = v

\* Uint8Array.prototype.slice(a, b) / String.prototype.slice(a, b), 0 <= a
Slice(d, a, b) ==
  IF a >= Min(b, Len(d)) THEN <<>> ELSE SubSeq(d, a + 1, Min(b, Len(d)))

SliceFrom(d, a) == Slice(d, a, Len(d))

\* outcome of an embedder call: new bytes, null, or a thrown exception
Bytes(b) == [kind |-> "bytes", bytes |-> b]
Null == [kind |-> "null", bytes |-> <<>>]
Throw == [kind |-> "throw", bytes |-> <<>>]
NoCall == [kind |-> "none", bytes |-> <<>>]

---------------------------------------------------------------------------
(* Strings                                                                 *)

\* WhiteSpace and LineTerminator code units: what String.prototype.trim
\* strips and what \s matches in a regular expression
IsSpace(c) ==
  \/ c \in {9, 10, 11, 12, 13, 32, 160, 5760, 8232, 8233, 8239, 8287, 12288, 65279}
  \/ (c >= 8192 /\ c <= 8202)

RECURSIVE TrimStart(_)
TrimStart(s) ==
  IF Len(s) > 0 /\ IsSpace(s[1]) THEN TrimStart(Tail(s)) ELSE s

RECURSIVE TrimEnd(_)
TrimEnd(s) ==
  IF Len(s) > 0 /\ IsSpace(s[Len(s)]) THEN TrimEnd(SubSeq(s, 1, Len(s) - 1)) ELSE s

Trim(s) == TrimEnd(TrimStart(s))

IsHighSurrogate(c) == c >= 55296 /\ c <= 56319
IsLowSurrogate(c) == c >= 56320 /\ c <= 57343

\* UTF-8 bytes of one code unit that is not part of a surrogate pair
Utf8Unit(c) ==
  IF c < 128 THEN <<c>>
  ELSE IF c < 2048 THEN <<192 + (c \div 64), 128 + (c % 64)>>
  ELSE IF IsHighSurrogate(c) \/ IsLowSurrogate(c) THEN <<239, 191, 189>>
  ELSE <<224 + (c \div 4096), 128 + ((c \div 64) % 64), 128 + (c % 64)>>

\* UTF-8 bytes of a surrogate pair
Utf8Pair(hi, lo) ==
  LET cp == 65536 + (hi - 55296) * 1024 + (lo - 56320)
  IN  <<240 + (cp \div 262144), 128 + ((cp \div 4096) % 64),
        128 + ((cp \div 64) % 64), 128 + (cp % 64)>>

\* TextEncoder.encode: the string is encoded piece by piece, never cutting
\* a surrogate pair in two
RECURSIVE Utf8Encode(_)
Utf8Encode(s) ==
  IF Len(s) = 0 THEN <<>>
  ELSE IF Len(s) = 1 THEN Utf8Unit(s[1])
  ELSE IF Len(s) = 2 /\ IsHighSurrogate(s[1]) /\ IsLowSurrogate(s[2])
    THEN Utf8Pair(s[1], s[2])
  ELSE LET h == Len(s) \div 2
           m == IF IsHighSurrogate(s[h]) /\ IsLowSurrogate(s[h + 1]) THEN h + 1 ELSE h
       IN  Utf8Encode(SubSeq(s, 1, m)) \o Utf8Encode(SubSeq(s, m + 1, Len(s)))

\* s.replace(/c/g, r) for a one-character pattern c
RECURSIVE ReplaceAll(_, _, _)
ReplaceAll(s, c, r) ==
  IF Len(s) = 0 THEN <<>>
  ELSE IF Len(s) = 1 THEN (IF s[1] = c THEN r ELSE s)
  ELSE LET h == Len(s) \div 2
       IN  ReplaceAll(SubSeq(s, 1, h), c, r) \o ReplaceAll(SubSeq(s, h + 1, Len(s)), c, r)

RECURSIVE SkipSpaces(_, _)
SkipSpaces(s, i) ==
  IF i <= Len(s) /\ IsSpace(s[i]) THEN SkipSpaces(s, i + 1) ELSE i

\* s.split(/,\s*/), scanning from index i with the current piece starting at start
RECURSIVE SplitCommaFrom(_, _, _)
SplitCommaFrom(s, i, start) ==
  IF i > Len(s) THEN <<SubSeq(s, start, Len(s))>>
  ELSE IF s[i] = 44
    THEN LET j == SkipSpaces(s, i + 1)
         IN  <<SubSeq(s, start, i - 1)>> \o SplitCommaFrom(s, j, j)
  ELSE SplitCommaFrom(s, i + 1, start)

SplitComma(s) == SplitCommaFrom(s, 1, 1)

\* arr.filter(Boolean): drops the empty strings
RECURSIVE FilterNonEmpty(_)
FilterNonEmpty(ss) ==
  IF Len(ss) = 0 THEN <<>>
  ELSE (IF Len(Head(ss)) > 0 THEN <<Head(ss)>> ELSE <<>>) \o FilterNonEmpty(Tail(ss))

\* arr.filter((k) => k.trim()): drops the strings that are blank
RECURSIVE FilterNonBlank(_)
FilterNonBlank(ss) ==
  IF Len(ss) = 0 THEN <<>>
  ELSE (IF Len(Trim(Head(ss))) > 0 THEN <<Head(ss)>> ELSE <<>>) \o FilterNonBlank(Tail(ss))

\* arr.join(sep)
RECURSIVE Join(_, _)
Join(ss, sep) ==
  IF Len(ss) = 0 THEN <<>>
  ELSE IF Len(ss) = 1 THEN ss[1]
  ELSE ss[1] \o sep \o Join(Tail(ss), sep)

\* "Photoshop 3.0\0"
S_Photoshop30 ==
  <<80,104,111,116,111,115,104,111,112,32,51,46,48,0>>
\* "8BIM"
S_8BIM ==
  <<56,66,73,77>>
\* "Exif\0\0"
S_ExifIdent ==
  <<69,120,105,102,0,0>>
\* "http://ns.adobe.com/xap/1.0/\0"
S_XapIdent ==
  <<104,116,116,112,58,47,47,110,115,46,97,100,111,98,101,46,99,111,109,47,120,97,112,47,49,46,48,47,0>>
\* "&amp;"
S_amp ==
  <<38,97,109,112,59>>
\* "&lt;"
S_lt ==
  <<38,108,116,59>>
\* "&gt;"
S_gt ==
  <<38,103,116,59>>
\* "&quot;"
S_quot ==
  <<38,113,117,111,116,59>>
\* "&apos;"
S_apos ==
  <<38,97,112,111,115,59>>
\* "<rdf:Alt><rdf:li xml:lang="x-default">"
S_LangAltOpen ==
  <<60,114,100,102,58,65,108,116,62,60,114,100,102,58,108,105,32,120,109,108,58,108,97,110,103,61,34,
     120,45,100,101,102,97,117,108,116,34,62>>
\* "</rdf:li></rdf:Alt>"
S_LangAltClose ==
  <<60,47,114,100,102,58,108,105,62,60,47,114,100,102,58,65,108,116,62>>
\* "<dc:title>"
S_dcTitleOpen ==
  <<60,100,99,58,116,105,116,108,101,62>>
\* "</dc:title>"
S_dcTitleClose ==
  <<60,47,100,99,58,116,105,116,108,101,62>>
\* "<dc:description>"
S_dcDescOpen ==
  <<60,100,99,58,100,101,115,99,114,105,112,116,105,111,110,62>>
\* "</dc:description>"
S_dcDescClose ==
  <<60,47,100,99,58,100,101,115,99,114,105,112,116,105,111,110,62>>
\* "<dc:subject><rdf:Bag>"
S_dcSubjectOpen ==
  <<60,100,99,58,115,117,98,106,101,99,116,62,60,114,100,102,58,66,97,103,62>>
\* "</rdf:Bag></dc:subject>"
S_dcSubjectClose ==
  <<60,47,114,100,102,58,66,97,103,62,60,47,100,99,58,115,117,98,106,101,99,116,62>>
\* "<rdf:li>"
S_liOpen ==
  <<60,114,100,102,58,108,105,62>>
\* "</rdf:li>"
S_liClose ==
  <<60,47,114,100,102,58,108,105,62>>
\* "<photoshop:Headline>"
S_HeadlineOpen ==
  <<60,112,104,111,116,111,115,104,111,112,58,72,101,97,100,108,105,110,101,62>>
\* "</photoshop:Headline>"
S_HeadlineClose ==
  <<60,47,112,104,111,116,111,115,104,111,112,58,72,101,97,100,108,105,110,101,62>>
\* "<xmp:Label>"
S_LabelOpen ==
  <<60,120,109,112,58,76,97,98,101,108,62>>
\* "</xmp:Label>"
S_LabelClose ==
  <<60,47,120,109,112,58,76,97,98,101,108,62>>
\* "<Iptc4xmpExt:AltTextAccessibility>"
S_AltTextOpen ==
  <<60,73,112,116,99,52,120,109,112,69,120,116,58,65,108,116,84,101,120,116,65,99,99,101,115,115,105,98,
     105,108,105,116,121,62>>
\* "</Iptc4xmpExt:AltTextAccessibility>"
S_AltTextClose ==
  <<60,47,73,112,116,99,52,120,109,112,69,120,116,58,65,108,116,84,101,120,116,65,99,99,101,115,115,105,
     98,105,108,105,116,121,62>>
\* "\n    " (line break and indentation between packet parts)
S_XmpSep ==
  <<10,32,32,32,32>>
\* the packet text from "\n  </rdf:Description>" to "<?xpacket end=\"w\"?>"
S_XmpTail ==
  <<10,32,32,60,47,114,100,102,58,68,101,115,99,114,105,112,116,105,111,110,62,10,32,60,47,114,100,102,
     58,82,68,70,62,10,60,47,120,58,120,109,112,109,101,116,97,62,10,60,63,120,112,97,99,107,101,116,32,
     101,110,100,61,34,119,34,63,62>>
\* the JPEG packet text from "<?xpacket begin" (with U+FEFF) to the indentation before ${dcTitle}
S_JpegXmpHead ==
  <<60,63,120,112,97,99,107,101,116,32,98,101,103,105,110,61,34,65279,34,32,105,100,61,34,87,53,77,48,
     77,112,67,101,104,105,72,122,114,101,83,122,78,84,99,122,107,99,57,100,34,63,62,10,60,120,58,120,
     109,112,109,101,116,97,32,120,109,108,110,115,58,120,61,34,97,100,111,98,101,58,110,115,58,109,101,
     116,97,47,34,62,10,32,60,114,100,102,58,82,68,70,32,120,109,108,110,115,58,114,100,102,61,34,104,
     116,116,112,58,47,47,119,119,119,46,119,51,46,111,114,103,47,49,57,57,57,47,48,50,47,50,50,45,114,
     100,102,45,115,121,110,116,97,120,45,110,115,35,34,62,10,32,32,60,114,100,102,58,68,101,115,99,114,
     105,112,116,105,111,110,32,114,100,102,58,97,98,111,117,116,61,34,34,10,32,32,32,32,120,109,108,110,
     115,58,100,99,61,34,104,116,116,112,58,47,47,112,117,114,108,46,111,114,103,47,100,99,47,101,108,
     101,109,101,110,116,115,47,49,46,49,47,34,10,32,32,32,32,120,109,108,110,115,58,120,109,112,61,34,
     104,116,116,112,58,47,47,110,115,46,97,100,111,98,101,46,99,111,109,47,120,97,112,47,49,46,48,47,34,
     10,32,32,32,32,120,109,108,110,115,58,112,104,111,116,111,115,104,111,112,61,34,104,116,116,112,58,
     47,47,110,115,46,97,100,111,98,101,46,99,111,109,47,112,104,111,116,111,115,104,111,112,47,49,46,48,
     47,34,10,32,32,32,32,120,109,108,110,115,58,73,112,116,99,52,120,109,112,69,120,116,61,34,104,116,
     116,112,58,47,47,105,112,116,99,46,111,114,103,47,115,116,100,47,73,112,116,99,52,120,109,112,69,
     120,116,47,50,48,48,56,45,48,50,45,50,57,47,34,62,10,32,32,32,32>>
\* the PNG packet text up to the indentation before ${parts.join(...)}
S_PngXmpHead ==
  <<60,63,120,112,97,99,107,101,116,32,98,101,103,105,110,61,34,65279,34,32,105,100,61,34,87,53,77,48,
     77,112,67,101,104,105,72,122,114,101,83,122,78,84,99,122,107,99,57,100,34,63,62,10,60,120,58,120,
     109,112,109,101,116,97,32,120,109,108,110,115,58,120,61,34,97,100,111,98,101,58,110,115,58,109,101,
     116,97,47,34,62,10,32,60,114,100,102,58,82,68,70,32,120,109,108,110,115,58,114,100,102,61,34,104,
     116,116,112,58,47,47,119,119,119,46,119,51,46,111,114,103,47,49,57,57,57,47,48,50,47,50,50,45,114,
     100,102,45,115,121,110,116,97,120,45,110,115,35,34,62,10,32,32,60,114,100,102,58,68,101,115,99,114,
     105,112,116,105,111,110,32,114,100,102,58,97,98,111,117,116,61,34,34,10,32,32,32,32,120,109,108,110,
     115,58,100,99,61,34,104,116,116,112,58,47,47,112,117,114,108,46,111,114,103,47,100,99,47,101,108,
     101,109,101,110,116,115,47,49,46,49,47,34,10,32,32,32,32,120,109,108,110,115,58,112,104,111,116,111,
     115,104,111,112,61,34,104,116,116,112,58,47,47,110,115,46,97,100,111,98,101,46,99,111,109,47,112,
     104,111,116,111,115,104,111,112,47,49,46,48,47,34,62,10,32,32,32,32>>
\* the WebP packet text up to the indentation before ${parts.join(...)}
S_WebpXmpHead ==
  <<60,63,120,112,97,99,107,101,116,32,98,101,103,105,110,61,34,65279,34,32,105,100,61,34,87,53,77,48,
     77,112,67,101,104,105,72,122,114,101,83,122,78,84,99,122,107,99,57,100,34,63,62,10,60,120,58,120,
     109,112,109,101,116,97,32,120,109,108,110,115,58,120,61,34,97,100,111,98,101,58,110,115,58,109,101,
     116,97,47,34,62,10,32,60,114,100,102,58,82,68,70,32,120,109,108,110,115,58,114,100,102,61,34,104,
     116,116,112,58,47,47,119,119,119,46,119,51,46,111,114,103,47,49,57,57,57,47,48,50,47,50,50,45,114,
     100,102,45,115,121,110,116,97,120,45,110,115,35,34,62,10,32,32,60,114,100,102,58,68,101,115,99,114,
     105,112,116,105,111,110,32,114,100,102,58,97,98,111,117,116,61,34,34,10,32,32,32,32,120,109,108,110,
     115,58,100,99,61,34,104,116,116,112,58,47,47,112,117,114,108,46,111,114,103,47,100,99,47,101,108,
     101,109,101,110,116,115,47,49,46,49,47,34,10,32,32,32,32,120,109,108,110,115,58,112,104,111,116,111,
     115,104,111,112,61,34,104,116,116,112,58,47,47,110,115,46,97,100,111,98,101,46,99,111,109,47,112,
     104,111,116,111,115,104,111,112,47,49,46,48,47,34,10,32,32,32,32,120,109,108,110,115,58,73,112,116,
     99,52,120,109,112,69,120,116,61,34,104,116,116,112,58,47,47,105,112,116,99,46,111,114,103,47,115,
     116,100,47,73,112,116,99,52,120,109,112,69,120,116,47,50,48,48,56,45,48,50,45,50,57,47,34,62,10,32,
     32,32,32>>
\* "; "
S_KwJoin ==
  <<59,32>>
\* "Title"
S_Title ==
  <<84,105,116,108,101>>
\* "Description"
S_Description ==
  <<68,101,115,99,114,105,112,116,105,111,110>>
\* "Comment"
S_Comment ==
  <<67,111,109,109,101,110,116>>
\* "XML:com.adobe.xmp"
S_XmlComAdobeXmp ==
  <<88,77,76,58,99,111,109,46,97,100,111,98,101,46,120,109,112>>
\* "iTXt"
S_iTXt ==
  <<105,84,88,116>>
\* "tEXt"
S_tEXt ==
  <<116,69,88,116>>
\* "zTXt"
S_zTXt ==
  <<122,84,88,116>>
\* "XMP "
S_XMPsp ==
  <<88,77,80,32>>
\* "RIFF"
S_RIFF ==
  <<82,73,70,70>>
\* "WEBP"
S_WEBP ==
  <<87,69,66,80>>
\* "GIF87a"
S_GIF87a ==
  <<71,73,70,56,55,97>>
\* "GIF89a"
S_GIF89a ==
  <<71,73,70,56,57,97>>
\* "Title: "
S_TitleColon ==
  <<84,105,116,108,101,58,32>>
\* "Description: "
S_DescriptionColon ==
  <<68,101,115,99,114,105,112,116,105,111,110,58,32>>
\* "Keywords: "
S_KeywordsColon ==
  <<75,101,121,119,111,114,100,115,58,32>>
\* " | "
S_Bar ==
  <<32,124,32>>
\* "XMP DataXMP"
S_XmpDataXmp ==
  <<88,77,80,32,68,97,116,97,88,77,80>>
\* the GIF packet text up to the indentation before ${parts.join(...)}
S_GifXmpHead ==
  <<60,63,120,112,97,99,107,101,116,32,98,101,103,105,110,61,34,65279,34,32,105,100,61,34,87,53,77,48,
     77,112,67,101,104,105,72,122,114,101,83,122,78,84,99,122,107,99,57,100,34,63,62,10,60,120,58,120,
     109,112,109,101,116,97,32,120,109,108,110,115,58,120,61,34,97,100,111,98,101,58,110,115,58,109,101,
     116,97,47,34,62,10,32,60,114,100,102,58,82,68,70,32,120,109,108,110,115,58,114,100,102,61,34,104,
     116,116,112,58,47,47,119,119,119,46,119,51,46,111,114,103,47,49,57,57,57,47,48,50,47,50,50,45,114,
     100,102,45,115,121,110,116,97,120,45,110,115,35,34,62,10,32,32,60,114,100,102,58,68,101,115,99,114,
     105,112,116,105,111,110,32,114,100,102,58,97,98,111,117,116,61,34,34,10,32,32,32,32,120,109,108,110,
     115,58,100,99,61,34,104,116,116,112,58,47,47,112,117,114,108,46,111,114,103,47,100,99,47,101,108,
     101,109,101,110,116,115,47,49,46,49,47,34,62,10,32,32,32,32>>
\* "<svg"
S_svgLower ==
  <<60,115,118,103>>
\* "<SVG"
S_svgUpper ==
  <<60,83,86,71>>
\* "<metadata"
S_metadataOpen ==
  <<60,109,101,116,97,100,97,116,97>>
\* "</metadata>"
S_metadataClose ==
  <<60,47,109,101,116,97,100,97,116,97,62>>
\* "<title"
S_titleOpen ==
  <<60,116,105,116,108,101>>
\* "</title>"
S_titleClose ==
  <<60,47,116,105,116,108,101,62>>
\* "<title>"
S_titleTag ==
  <<60,116,105,116,108,101,62>>
\* "      <dc:title>"
S_SvgDcTitleOpen ==
  <<32,32,32,32,32,32,60,100,99,58,116,105,116,108,101,62>>
\* "      <dc:description>"
S_SvgDcDescOpen ==
  <<32,32,32,32,32,32,60,100,99,58,100,101,115,99,114,105,112,116,105,111,110,62>>
\* "      <dc:subject>\n        <rdf:Bag>\n"
S_SvgSubjectOpen ==
  <<32,32,32,32,32,32,60,100,99,58,115,117,98,106,101,99,116,62,10,32,32,32,32,32,32,32,32,60,114,100,
     102,58,66,97,103,62,10>>
\* "          <rdf:li>"
S_SvgLiOpen ==
  <<32,32,32,32,32,32,32,32,32,32,60,114,100,102,58,108,105,62>>
\* "\n        </rdf:Bag>\n      </dc:subject>"
S_SvgSubjectClose ==
  <<10,32,32,32,32,32,32,32,32,60,47,114,100,102,58,66,97,103,62,10,32,32,32,32,32,32,60,47,100,99,58,
     115,117,98,106,101,99,116,62>>
\* the metadata element text from "<metadata>" to the line break before ${parts.join("\n")}
S_SvgMetaHead ==
  <<60,109,101,116,97,100,97,116,97,62,10,32,32,60,114,100,102,58,82,68,70,32,120,109,108,110,115,58,
     114,100,102,61,34,104,116,116,112,58,47,47,119,119,119,46,119,51,46,111,114,103,47,49,57,57,57,47,
     48,50,47,50,50,45,114,100,102,45,115,121,110,116,97,120,45,110,115,35,34,10,32,32,32,32,32,32,32,32,
     32,32,32,120,109,108,110,115,58,100,99,61,34,104,116,116,112,58,47,47,112,117,114,108,46,111,114,
     103,47,100,99,47,101,108,101,109,101,110,116,115,47,49,46,49,47,34,62,10,32,32,32,32,60,114,100,102,
     58,68,101,115,99,114,105,112,116,105,111,110,32,114,100,102,58,97,98,111,117,116,61,34,34,62,10>>
\* the metadata element text from "\n    </rdf:Description>" to "</metadata>"
S_SvgMetaTail ==
  <<10,32,32,32,32,60,47,114,100,102,58,68,101,115,99,114,105,112,116,105,111,110,62,10,32,32,60,47,114,
     100,102,58,82,68,70,62,10,60,47,109,101,116,97,100,97,116,97,62>>
\* "\n"
S_NL ==
  <<10>>
\* "$1\n"
S_Dollar1NL ==
  <<36,49,10>>
\* "jpg"
S_jpg ==
  <<106,112,103>>
\* "jpeg"
S_jpeg ==
  <<106,112,101,103>>
\* "png"
S_png ==
  <<112,110,103>>
\* "webp"
S_webp ==
  <<119,101,98,112>>
\* "svg"
S_svg ==
  <<115,118,103>>
\* "gif"
S_gif ==
  <<103,105,102>>
\* ", "
S_CommaSpace ==
  <<44,32>>
\* "photo.jpg"
F_PhotoJpg ==
  <<112,104,111,116,111,46,106,112,103>>
\* "Shot.JPEG"
F_ShotJPEG ==
  <<83,104,111,116,46,74,80,69,71>>
\* "icon.png"
F_IconPng ==
  <<105,99,111,110,46,112,110,103>>
\* "pic.webp"
F_PicWebp ==
  <<112,105,99,46,119,101,98,112>>
\* "logo.svg"
F_LogoSvg ==
  <<108,111,103,111,46,115,118,103>>
\* "anim.gif"
F_AnimGif ==
  <<97,110,105,109,46,103,105,102>>
\* "README"
F_Readme ==
  <<82,69,65,68,77,69>>
\* "<svg width="1"><title>old</title><metadata>x</metadata><rect/></svg>"
T_SvgDoc ==
  <<60,115,118,103,32,119,105,100,116,104,61,34,49,34,62,60,116,105,116,108,101,62,111,108,100,60,47,
     116,105,116,108,101,62,60,109,101,116,97,100,97,116,97,62,120,60,47,109,101,116,97,100,97,116,97,62,
     60,114,101,99,116,47,62,60,47,115,118,103,62>>
\* "Big $& Cat!"
T_BigCat ==
  <<66,105,103,32,36,38,32,67,97,116,33>>
\* " ,fox,, fox"
T_KwMessy ==
  <<32,44,102,111,120,44,44,32,102,111,120>>
\* "forest,Animals"
T_Cats ==
  <<102,111,114,101,115,116,44,65,110,105,109,97,108,115>>
\* "<svg><rect/></svg>"
T_SvgBare ==
  <<60,115,118,103,62,60,114,101,99,116,47,62,60,47,115,118,103,62>>

\* "<SVG viewBox="0 0 1 1"><TITLE>Old</TITLE></SVG>"
T_SvgUpper ==
  <<60,83,86,71,32,118,105,101,119,66,111,120,61,34,48,32,48,32,49,32,49,34,62,60,84,73,84,76,69,62,79,
     108,100,60,47,84,73,84,76,69,62,60,47,83,86,71,62>>

\* "<?xml version=\"1.0\"?>" LF "<svg xmlns=...><title>a</title><title>b</title></svg>"
T_SvgProlog ==
  <<60,63,120,109,108,32,118,101,114,115,105,111,110,61,34,49,46,48,34,63,62,10,60,115,118,103,32,120,
     109,108,110,115,61,34,104,116,116,112,58,47,47,119,119,119,46,119,51,46,111,114,103,47,50,48,48,48,
     47,115,118,103,34,62,60,116,105,116,108,101,62,97,60,47,116,105,116,108,101,62,60,116,105,116,108,
     101,62,98,60,47,116,105,116,108,101,62,60,47,115,118,103,62>>

\* "<svg><g><title>part</title></g></svg>"
T_SvgNested ==
  <<60,115,118,103,62,60,103,62,60,116,105,116,108,101,62,112,97,114,116,60,47,116,105,116,108,101,62,
     60,47,103,62,60,47,115,118,103,62>>

\* "<Svg></Svg>"
T_SvgMixed ==
  <<60,83,118,103,62,60,47,83,118,103,62>>

\* "hello"
T_NotSvg ==
  <<104,101,108,108,111>>

\* "A$$B"
T_TwoDollars ==
  <<65,36,36,66>>

\* ">"
S_Gt ==
  <<62>>

\* "<svg width="1""
T_SvgCut ==
  <<60,115,118,103,32,119,105,100,116,104,61,34,49,34>>

\* "<svg><metadata/><rect/></svg>"
T_SvgSelfClosed ==
  <<60,115,118,103,62,60,109,101,116,97,100,97,116,97,47,62,60,114,101,99,116,47,62,60,47,115,118,103,62>>

\* "<svg><metadata><metadata>x</metadata></metadata></svg>"
T_SvgNestedMeta ==
  <<60,115,118,103,62,60,109,101,116,97,100,97,116,97,62,60,109,101,116,97,100,97,116,97,62,120,60,47,
     109,101,116,97,100,97,116,97,62,60,47,109,101,116,97,100,97,116,97,62,60,47,115,118,103,62>>

\* ", ,"
T_KwCommas ==
  <<44,32,44>>

\* " "
T_KwBlank ==
  <<32>>

\* "a , b"
T_KwSpaced ==
  <<97,32,44,32,98>>

---------------------------------------------------------------------------
(* JPEG embedder (jpegMetadata)                                            *)

IPTC_TAGS ==
  [OBJECT_NAME |-> 5, CATEGORY |-> 15, KEYWORDS |-> 25, HEADLINE |-> 105,
   CAPTION_ABSTRACT |-> 120]

EXIF_TAGS ==
  [IMAGE_DESCRIPTION |-> 270, XP_TITLE |-> 40091, XP_COMMENT |-> 40092,
   XP_KEYWORDS |-> 40094, XP_SUBJECT |-> 40095]

\* 0x1c, record 2, tag, 2-byte big-endian size (only its low 16 bits), value
createIPTCDataset(tag, value) ==
  LET valueBytes == Utf8Encode(value)
      len == Len(valueBytes)
  IN  <<28, 2, tag % 256, (len \div 256) % 256, len % 256>> \o valueBytes

RECURSIVE KeywordDatasets(_)
KeywordDatasets(keywords) ==
  IF Len(keywords) = 0 THEN <<>>
  ELSE (IF Len(Trim(Head(keywords))) > 0
          THEN createIPTCDataset(IPTC_TAGS.KEYWORDS, Slice(Trim(Head(keywords)), 0, 64))
          ELSE <<>>)
       \o KeywordDatasets(Tail(keywords))

\* m: [title, description, keywords (a list), category]
createIPTCBlock(m) ==
  (IF Len(m.title) > 0
     THEN createIPTCDataset(IPTC_TAGS.OBJECT_NAME, Slice(m.title, 0, 64)) ELSE <<>>)
  \o (IF Len(m.title) > 0
        THEN createIPTCDataset(IPTC_TAGS.HEADLINE, Slice(m.title, 0, 256)) ELSE <<>>)
  \o (IF Len(m.description) > 0
        THEN createIPTCDataset(IPTC_TAGS.CAPTION_ABSTRACT, Slice(m.description, 0, 2000))
        ELSE <<>>)
  \o (IF Len(m.category) > 0
        THEN createIPTCDataset(IPTC_TAGS.CATEGORY, Slice(m.category, 0, 3)) ELSE <<>>)
  \o KeywordDatasets(m.keywords)

\* "8BIM", resource id 0x0404, empty pascal string padded to even, 4-byte
\* big-endian size, data padded to even
createPhotoshopIPTCResource(iptcData) ==
  LET n == Len(iptcData)
  IN  Utf8Encode(S_8BIM) \o <<4, 4>> \o <<0, 0>>
      \o <<(n \div 16777216) % 256, (n \div 65536) % 256, (n \div 256) % 256, n % 256>>
      \o iptcData \o Zeros(n % 2)

\* two bytes per code unit, low byte first, then a two-byte null terminator
encodeUTF16LE(str) ==
  [i \in 1..(2 * Len(str) + 2) |->
     IF i > 2 * Len(str) THEN 0
     ELSE IF i % 2 = 1 THEN str[(i + 1) \div 2] % 256
     ELSE (str[i \div 2] \div 256) % 256]

LE16(v) == <<v % 256, (v \div 256) % 256>>
LE32(v) == <<v % 256, (v \div 256) % 256, (v \div 65536) % 256, (v \div 16777216) % 256>>

\* 12 bytes: tag, type, count, value-or-offset, all little-endian
createIFDEntry(tag, type, count, valueOffset) ==
  LE16(tag) \o LE16(type) \o LE32(count) \o LE32(valueOffset)

\* entries.sort((a, b) => a.tag - b.tag): a stable sort, ascending by tag
RECURSIVE InsertByTag(_, _)
InsertByTag(e, sorted) ==
  IF Len(sorted) = 0 THEN <<e>>
  ELSE IF Head(sorted).tag <= e.tag THEN <<Head(sorted)>> \o InsertByTag(e, Tail(sorted))
  ELSE <<e>> \o sorted

\* the entries in the reverse of their push order
ReverseEntries(entries) == [i \in 1..Len(entries) |-> entries[Len(entries) + 1 - i]]

RECURSIVE SortByTag(_)
SortByTag(entries) ==
  IF Len(entries) = 0 THEN <<>>
  ELSE InsertByTag(entries[Len(entries)], SortByTag(SubSeq(entries, 1, Len(entries) - 1)))

\* the entries createEXIFSegment pushes, in push order
ExifEntries(m) ==
  LET descOrTitle == IF Len(m.description) > 0 THEN m.description ELSE m.title
  IN  (IF Len(m.description) > 0 \/ Len(m.title) > 0
         THEN <<[tag |-> EXIF_TAGS.IMAGE_DESCRIPTION, type |-> 2,
                 data |-> Utf8Encode(descOrTitle \o <<0>>)]>>
         ELSE <<>>)
      \o (IF Len(m.title) > 0
            THEN <<[tag |-> EXIF_TAGS.XP_TITLE, type |-> 1, data |-> encodeUTF16LE(m.title)]>>
            ELSE <<>>)
      \o (IF Len(m.description) > 0 \/ Len(m.title) > 0
            THEN <<[tag |-> EXIF_TAGS.XP_COMMENT, type |-> 1,
                    data |-> encodeUTF16LE(descOrTitle)]>>
            ELSE <<>>)
      \o (IF Len(m.keywords) > 0
            THEN <<[tag |-> EXIF_TAGS.XP_KEYWORDS, type |-> 1,
                    data |-> encodeUTF16LE(Join(m.keywords, S_KwJoin))]>>
            ELSE <<>>)
      \o (IF Len(m.title) > 0
            THEN <<[tag |-> EXIF_TAGS.XP_SUBJECT, type |-> 1, data |-> encodeUTF16LE(m.title)]>>
            ELSE <<>>)

\* the loop over the sorted entries: the IFD entries, with the out-of-line
\* values placed from currentDataOffset on, each padded to an even length
RECURSIVE IfdEntries(_, _)
IfdEntries(entries, currentDataOffset) ==
  IF Len(entries) = 0 THEN <<>>
  ELSE LET e == Head(entries)
           n == Len(e.data)
           paddedValue == e.data \o Zeros(4 - n)
       IN  IF n <= 4
             THEN createIFDEntry(e.tag, e.type, n,
                                 paddedValue[1] + 256 * paddedValue[2]
                                 + 65536 * paddedValue[3] + 16777216 * paddedValue[4])
                  \o IfdEntries(Tail(entries), currentDataOffset)
             ELSE createIFDEntry(e.tag, e.type, n, currentDataOffset)
                  \o IfdEntries(Tail(entries), currentDataOffset + n + (n % 2))

\* a data section that leaves out the pad bytes
DataSectionUnpadded(entries) ==
  Flatten([i \in 1..Len(entries) |->
             IF Len(entries[i].data) > 4 THEN entries[i].data ELSE <<>>])

RECURSIVE DataSection(_)
DataSection(entries) ==
  IF Len(entries) = 0 THEN <<>>
  ELSE LET n == Len(Head(entries).data)
       IN  (IF n > 4 THEN Head(entries).data \o Zeros(n % 2) ELSE <<>>)
           \o DataSection(Tail(entries))

\* m: [title, description, keywords (a list)]
createEXIFSegment(m) ==
  IF Len(m.title) = 0 /\ Len(m.description) = 0 /\ Len(m.keywords) = 0 THEN <<>>
  ELSE
    LET entries == SortByTag(ExifEntries(m))
        numEntries == Len(entries)
        ifdSize == 2 + numEntries * 12 + 4
        tiffHeaderSize == 8
        dataStartOffset == tiffHeaderSize + ifdSize
        tiffData == <<73, 73, 42, 0, 8, 0, 0, 0>>
                    \o LE16(numEntries)
                    \o IfdEntries(entries, dataStartOffset)
                    \o <<0, 0, 0, 0>>
                    \o DataSection(entries)
        exifIdent == Utf8Encode(S_ExifIdent)
        segmentLength == 2 + Len(exifIdent) + Len(tiffData)
    IN  <<255, 225, (segmentLength \div 256) % 256, segmentLength % 256>>
        \o exifIdent \o tiffData

jpeg_escapeXml(value) ==
  ReplaceAll(ReplaceAll(ReplaceAll(ReplaceAll(ReplaceAll(value,
    38, S_amp), 60, S_lt), 62, S_gt), 34, S_quot), 39, S_apos)

buildLangAlt(value) == S_LangAltOpen \o jpeg_escapeXml(value) \o S_LangAltClose

RECURSIVE TrimEach(_)
TrimEach(ss) == IF Len(ss) = 0 THEN <<>> ELSE <<Trim(Head(ss))>> \o TrimEach(Tail(ss))

RECURSIVE jpeg_SubjectItems(_)
jpeg_SubjectItems(keywords) ==
  IF Len(keywords) = 0 THEN <<>>
  ELSE S_liOpen \o jpeg_escapeXml(Head(keywords)) \o S_liClose
       \o jpeg_SubjectItems(Tail(keywords))

\* the template literal of createXMPSegment
jpeg_xmpPacket(m) ==
  LET title == Trim(m.title)
      keywords == FilterNonEmpty(TrimEach(m.keywords))
      description == Trim(m.description)
      label == Trim(m.label)
      altText == Trim(m.altText)
      effectiveDescription == IF Len(title) > 0 THEN title ELSE description
      effectiveLabel == IF Len(label) > 0 THEN label ELSE title
      effectiveAltText == IF Len(altText) > 0 THEN altText ELSE title
      dcTitle == IF Len(title) > 0
                   THEN S_dcTitleOpen \o buildLangAlt(title) \o S_dcTitleClose ELSE <<>>
      dcDesc == IF Len(effectiveDescription) > 0
                  THEN S_dcDescOpen \o buildLangAlt(effectiveDescription) \o S_dcDescClose
                  ELSE <<>>
      dcSubject == IF Len(keywords) > 0
                     THEN S_dcSubjectOpen \o jpeg_SubjectItems(keywords) \o S_dcSubjectClose
                     ELSE <<>>
      psHeadline == IF Len(title) > 0
                      THEN S_HeadlineOpen \o jpeg_escapeXml(title) \o S_HeadlineClose ELSE <<>>
      xmpLabel == IF Len(effectiveLabel) > 0
                    THEN S_LabelOpen \o jpeg_escapeXml(effectiveLabel) \o S_LabelClose ELSE <<>>
      accessibilityAlt == IF Len(effectiveAltText) > 0
                            THEN S_AltTextOpen \o buildLangAlt(effectiveAltText) \o S_AltTextClose
                            ELSE <<>>
  IN  S_JpegXmpHead \o dcTitle \o S_XmpSep \o dcDesc \o S_XmpSep \o dcSubject \o S_XmpSep
      \o psHeadline \o S_XmpSep \o xmpLabel \o S_XmpSep \o accessibilityAlt \o S_XmpTail

\* a builder that emits the marker, the low 16 bits of the length and the
\* identifier where createXMPSegment omits the segment
createXMPSegmentAlways(m) ==
  LET ident == Utf8Encode(S_XapIdent)
      xmpBytes == Utf8Encode(jpeg_xmpPacket(m))
      segmentLength == 2 + Len(ident) + Len(xmpBytes)
  IN  <<255, 225, (segmentLength \div 256) % 256, segmentLength % 256>> \o ident
      \o (IF segmentLength > 65535 THEN <<>> ELSE xmpBytes)

\* m: [title, description, keywords (a list), altText, label]
createXMPSegment(m) ==
  IF /\ Len(Trim(m.title)) = 0 /\ Len(Trim(m.description)) = 0
     /\ Len(FilterNonEmpty(TrimEach(m.keywords))) = 0
     /\ Len(Trim(m.altText)) = 0 /\ Len(Trim(m.label)) = 0
    THEN <<>>
  ELSE
    LET ident == Utf8Encode(S_XapIdent)
        xmpBytes == Utf8Encode(jpeg_xmpPacket(m))
        segmentLength == 2 + Len(ident) + Len(xmpBytes)
    IN  IF segmentLength > 65535 THEN <<>>
        ELSE <<255, 225, (segmentLength \div 256) % 256, segmentLength % 256>>
             \o ident \o xmpBytes

\* the APP13 segment embedMetadataInJPEG builds around the Photoshop block
App13Segment(iptcBlock) ==
  LET app13Content == Utf8Encode(S_Photoshop30) \o iptcBlock
      segmentLength == Len(app13Content) + 2
  IN  <<255, 237, (segmentLength \div 256) % 256, segmentLength % 256>> \o app13Content

\* the 2-byte big-endian length read at insertPos + 2
SegLen(jpegData, insertPos) ==
  256 * ByteAt(jpegData, insertPos + 2) + ByteAt(jpegData, insertPos + 3)

\* the scan loop of embedMetadataInJPEG: the value of insertPos when it ends
RECURSIVE ScanInsertPos(_, _)
ScanInsertPos(jpegData, insertPos) ==
  IF ~(insertPos < Len(jpegData) - 1) THEN insertPos
  ELSE IF jpegData[insertPos + 1] # 255 THEN insertPos
  ELSE LET marker == jpegData[insertPos + 2]
       IN  IF marker = 225 THEN ScanInsertPos(jpegData, insertPos + 2 + SegLen(jpegData, insertPos))
           ELSE IF marker = 237
             THEN ScanInsertPos(jpegData, insertPos + 2 + SegLen(jpegData, insertPos))
           ELSE IF marker < 224 \/ marker > 239 THEN insertPos
           ELSE IF marker = 224
             THEN ScanInsertPos(jpegData, insertPos + 2 + SegLen(jpegData, insertPos))
           ELSE insertPos

\* new Uint8Array(newSize) throws a RangeError for a negative size, and
\* result.set(src, off) throws one when off + src.length > result.length
embedMetadataInJPEG(jpegData, iptcBlock, exifSegment, xmpSegment) ==
  LET app13Segment == App13Segment(iptcBlock)
      insertPos == ScanInsertPos(jpegData, 2)
      newSize == 2 + Len(exifSegment) + Len(xmpSegment) + Len(app13Segment)
                 + (Len(jpegData) - insertPos)
      offExif == 2
      offXmp == offExif + Len(exifSegment)
      offApp13 == offXmp + Len(xmpSegment)
      offRest == offApp13 + Len(app13Segment)
      rest == SliceFrom(jpegData, insertPos)
  IN  IF newSize < 0 THEN Throw
      ELSE IF Len(exifSegment) > 0 /\ offExif + Len(exifSegment) > newSize THEN Throw
      ELSE IF Len(xmpSegment) > 0 /\ offXmp + Len(xmpSegment) > newSize THEN Throw
      ELSE IF offApp13 + Len(app13Segment) > newSize THEN Throw
      ELSE IF offRest + Len(rest) > newSize THEN Throw
      ELSE Bytes(<<255, 216>> \o exifSegment \o xmpSegment \o app13Segment \o rest)

\* category.split(/[\s,]+/)[0]: the text before the first space or comma
RECURSIVE FirstWord(_)
FirstWord(s) ==
  IF Len(s) = 0 \/ IsSpace(s[1]) \/ s[1] = 44 THEN <<>>
  ELSE <<s[1]>> \o FirstWord(Tail(s))

\* what embedJpegMetadata derives from the metadata record
\* [title, description, altText, keywords (a string), category]: the
\* Photoshop block and the EXIF and XMP segments
JpegParts(metadata) ==
  LET title == Trim(metadata.title)
      description == Trim(metadata.description)
      altText == IF Len(Trim(metadata.altText)) > 0 THEN Trim(metadata.altText)
                 ELSE IF Len(description) > 0 THEN description ELSE title
      category == Trim(metadata.category)
      firstWordCategory == IF Len(category) > 0 THEN FirstWord(category) ELSE <<>>
      keywords == IF Len(metadata.keywords) > 0
                    THEN FilterNonBlank(SplitComma(metadata.keywords)) ELSE <<>>
      descOrTitle == IF Len(description) > 0 THEN description ELSE title
      iptcData == createIPTCBlock([title |-> title, description |-> description,
                                   keywords |-> keywords, category |-> firstWordCategory])
  IN  [photoshopBlock |-> createPhotoshopIPTCResource(iptcData),
       exifSegment |-> createEXIFSegment([title |-> title, description |-> descOrTitle,
                                          keywords |-> keywords]),
       xmpSegment |-> createXMPSegment([title |-> title, description |-> descOrTitle,
                                        label |-> title, altText |-> altText,
                                        keywords |-> keywords])]

embedJpegMetadata(jpegData, metadata) ==
  IF ~Is(jpegData, 0, 255) \/ ~Is(jpegData, 1, 216) THEN Null
  ELSE LET parts == JpegParts(metadata)
       IN  embedMetadataInJPEG(jpegData, parts.photoshopBlock, parts.exifSegment,
                               parts.xmpSegment)

---------------------------------------------------------------------------
(* PNG embedder (pngMetadata)                                              *)

\* a ^ b on non-negative integers, bit by bit
RECURSIVE Xor(_, _)
Xor(a, b) ==
  IF a = 0 THEN b
  ELSE IF b = 0 THEN a
  ELSE ((a + b) % 2) + 2 * Xor(a \div 2, b \div 2)

\* a ^ b on 4-bit values, tabulated once
XorNibble == [a \in 0..15 |-> [b \in 0..15 |-> Xor(a, b)]]

\* a ^ b on bytes
XorByte(a, b) == 16 * XorNibble[a \div 16][b \div 16] + XorNibble[a % 16][b % 16]

\* An unsigned 32-bit word is kept as its four bytes, most significant
\* first: TLC's integers stop at 2^31 - 1.
Xor32(a, b) == [i \in 1..4 |-> XorByte(a[i], b[i])]

\* w >>> 1
Shr1(w) ==
  <<w[1] \div 2, (w[2] \div 2) + 128 * (w[1] % 2), (w[3] \div 2) + 128 * (w[2] % 2),
    (w[4] \div 2) + 128 * (w[3] % 2)>>

\* w >>> 8
Shr8(w) == <<0, w[1], w[2], w[3]>>

\* 0xedb88320
CrcPoly == <<237, 184, 131, 32>>
\* 0xffffffff
AllOnes == <<255, 255, 255, 255>>

\* the inner loop of the table builder: k rounds of
\* c = c & 1 ? 0xedb88320 ^ (c >>> 1) : c >>> 1
RECURSIVE CrcRounds(_, _)
CrcRounds(c, k) ==
  IF k = 0 THEN c
  ELSE CrcRounds(IF c[4] % 2 = 1 THEN Xor32(CrcPoly, Shr1(c)) ELSE Shr1(c), k - 1)

crcTable == [n \in 0..255 |-> CrcRounds(<<0, 0, 0, n>>, 8)]

\* the loop of crc32 over data[lo..hi] (1-based, inclusive), starting from crc:
\* crc = crcTable[(crc ^ data[i]) & 0xff] ^ (crc >>> 8)
RECURSIVE CrcUpdate(_, _, _, _)
CrcUpdate(data, lo, hi, crc) ==
  IF lo > hi THEN crc
  ELSE IF lo = hi THEN Xor32(crcTable[XorByte(crc[4], data[lo])], Shr8(crc))
  ELSE LET mid == (lo + hi) \div 2
           left == CrcUpdate(data, lo, mid, crc)
       IN  \* the test is always true: it makes TLC compute the left half first
           IF left[4] >= 0 THEN CrcUpdate(data, mid + 1, hi, left) ELSE left

\* (crc ^ 0xffffffff) >>> 0, as the four bytes that buildChunk stores
crc32(data) == Xor32(CrcUpdate(data, 1, Len(data), AllOnes), AllOnes)

BE32(v) == <<(v \div 16777216) % 256, (v \div 65536) % 256, (v \div 256) % 256, v % 256>>

\* ((d[off] << 24) | (d[off+1] << 16) | (d[off+2] << 8) | d[off+3]) >>> 0
ReadBE32(d, off) ==
  16777216 * ByteAt(d, off) + 65536 * ByteAt(d, off + 1)
  + 256 * ByteAt(d, off + 2) + ByteAt(d, off + 3)

\* a chunk builder whose CRC covers the data only
buildChunkCrcOfData(type, data) ==
  BE32(Len(data)) \o Utf8Encode(type) \o data \o crc32(data)

\* length, type, data, CRC over type + data
buildChunk(type, data) ==
  LET typeBytes == Utf8Encode(type)
  IN  BE32(Len(data)) \o typeBytes \o data \o crc32(typeBytes \o data)

\* createITXtChunk with the NUL of the empty translated keyword left out
createITXtChunkShort(keyword, text) ==
  buildChunk(S_iTXt, Utf8Encode(keyword) \o <<0, 0, 0, 0>> \o Utf8Encode(text))

\* keyword NUL, compression flag 0, compression method 0, empty language
\* tag NUL, empty translated keyword NUL, text
createITXtChunk(keyword, text) ==
  buildChunk(S_iTXt, Utf8Encode(keyword) \o <<0, 0, 0, 0, 0>> \o Utf8Encode(text))

\* the four replacements of esc / escapeXml in the PNG, WebP, GIF and SVG files
escapeXml4(s) ==
  ReplaceAll(ReplaceAll(ReplaceAll(ReplaceAll(s, 38, S_amp), 60, S_lt), 62, S_gt), 34, S_quot)

langAlt(v) == S_LangAltOpen \o escapeXml4(v) \o S_LangAltClose

RECURSIVE SubjectItems(_)
SubjectItems(keywords) ==
  IF Len(keywords) = 0 THEN <<>>
  ELSE S_liOpen \o escapeXml4(Head(keywords)) \o S_liClose \o SubjectItems(Tail(keywords))

\* the split without the filter
KeywordListUnfiltered(keywords) ==
  IF Len(keywords) > 0 THEN SplitComma(keywords) ELSE <<>>

\* meta.keywords ? meta.keywords.split(/,\s*/).filter(Boolean) : []
KeywordList(keywords) ==
  IF Len(keywords) > 0 THEN FilterNonEmpty(SplitComma(keywords)) ELSE <<>>

\* the parts common to the PNG and WebP packets
XmpParts(metadata) ==
  LET keywords == KeywordList(metadata.keywords)
  IN  (IF Len(metadata.title) > 0
         THEN <<S_dcTitleOpen \o langAlt(metadata.title) \o S_dcTitleClose>> ELSE <<>>)
      \o (IF Len(metadata.description) > 0 \/ Len(metadata.title) > 0
            THEN <<S_dcDescOpen
                   \o langAlt(IF Len(metadata.description) > 0 THEN metadata.description
                              ELSE metadata.title)
                   \o S_dcDescClose>>
            ELSE <<>>)
      \o (IF Len(keywords) > 0
            THEN <<S_dcSubjectOpen \o SubjectItems(keywords) \o S_dcSubjectClose>> ELSE <<>>)
      \o (IF Len(metadata.title) > 0
            THEN <<S_HeadlineOpen \o escapeXml4(metadata.title) \o S_HeadlineClose>> ELSE <<>>)

png_buildXmpPacket(metadata) ==
  S_PngXmpHead \o Join(XmpParts(metadata), S_XmpSep) \o S_XmpTail

\* the loop of stripExistingTextChunks from pos on: the chunks kept, concatenated
RECURSIVE StripFrom(_, _)
StripFrom(data, pos) ==
  IF ~(pos + 8 <= Len(data)) THEN <<>>
  ELSE LET len == ReadBE32(data, pos)
           type == Slice(data, pos + 4, pos + 8)
           chunkTotal == 4 + 4 + len + 4
       IN  IF pos + chunkTotal > Len(data) THEN <<>>
           ELSE (IF type # Utf8Encode(S_tEXt) /\ type # Utf8Encode(S_iTXt)
                    /\ type # Utf8Encode(S_zTXt)
                   THEN Slice(data, pos, pos + chunkTotal) ELSE <<>>)
                \o StripFrom(data, pos + chunkTotal)

\* stripExistingTextChunks dropping nothing
keepAllChunks(data) == data

stripExistingTextChunks(data) == StripFrom(data, 0)

PngSignature == <<137, 80, 78, 71, 13, 10, 26, 10>>

\* metadata: [title, description, altText, keywords (a string), category]
embedPngMetadata(data, metadata) ==
  IF \E i \in 0..7 : ~Is(data, i, PngSignature[i + 1]) THEN Null
  ELSE
    LET chunks ==
          (IF Len(metadata.title) > 0
             THEN createITXtChunk(S_Title, metadata.title) ELSE <<>>)
          \o (IF Len(metadata.description) > 0
                THEN createITXtChunk(S_Description, metadata.description) ELSE <<>>)
          \o (IF Len(metadata.keywords) > 0
                THEN createITXtChunk(S_Comment, metadata.keywords) ELSE <<>>)
          \o createITXtChunk(S_XmlComAdobeXmp, png_buildXmpPacket(metadata))
        ihdrLen == ReadBE32(data, 8)
        insertPos == 8 + 4 + 4 + ihdrLen + 4
        before == Slice(data, 0, insertPos)
        after == stripExistingTextChunks(SliceFrom(data, insertPos))
    IN  Bytes(before \o chunks \o after)

---------------------------------------------------------------------------
(* WebP embedder (webpMetadata)                                            *)

webp_buildXmpPacket(metadata) ==
  S_WebpXmpHead
  \o Join(XmpParts(metadata)
          \o (IF Len(metadata.altText) > 0
                THEN <<S_AltTextOpen \o langAlt(metadata.altText) \o S_AltTextClose>>
                ELSE <<>>),
          S_XmpSep)
  \o S_XmpTail

readU32LE(d, off) ==
  ByteAt(d, off) + 256 * ByteAt(d, off + 1) + 65536 * ByteAt(d, off + 2)
  + 16777216 * ByteAt(d, off + 3)

\* the four bytes writeU32LE stores
writeU32LE(v) == LE32(v)

\* "XMP ", size, data, one zero pad byte when the size is odd
XmpChunk(xmpBytes) ==
  LET xmpChunkSize == Len(xmpBytes)
      xmpPadded == IF xmpChunkSize % 2 # 0 THEN 1 ELSE 0
  IN  Utf8Encode(S_XMPsp) \o writeU32LE(xmpChunkSize) \o xmpBytes \o Zeros(xmpPadded)

\* the chunk scan of embedWebpMetadata from pos on: the chunks kept, concatenated
RECURSIVE CollectFrom(_, _)
CollectFrom(data, pos) ==
  IF ~(pos + 8 <= Len(data)) THEN <<>>
  ELSE LET chunkId == Slice(data, pos, pos + 4)
           chunkLen == readU32LE(data, pos + 4)
           totalLen == 8 + chunkLen + (IF chunkLen % 2 # 0 THEN 1 ELSE 0)
       IN  IF pos + totalLen > Len(data) + 1 THEN <<>>
           ELSE (IF chunkId # Utf8Encode(S_XMPsp)
                   THEN Slice(data, pos, pos + totalLen) ELSE <<>>)
                \o CollectFrom(data, pos + totalLen)

\* metadata: [title, description, altText, keywords (a string), category]
embedWebpMetadata(data, metadata) ==
  IF \/ Len(data) < 12
     \/ Slice(data, 0, 4) # Utf8Encode(S_RIFF)
     \/ Slice(data, 8, 12) # Utf8Encode(S_WEBP)
    THEN Null
  ELSE
    LET xmpChunk == XmpChunk(Utf8Encode(webp_buildXmpPacket(metadata)))
        chunks == CollectFrom(data, 12) \o xmpChunk
        bodyLen == Len(chunks)
    IN  Bytes(Utf8Encode(S_RIFF) \o writeU32LE(4 + bodyLen) \o Utf8Encode(S_WEBP) \o chunks)


---------------------------------------------------------------------------
(* GIF embedder (gifMetadata)                                              *)

gif_buildXmpPacket(meta_) ==
  LET keywords == KeywordList(meta_.keywords)
      parts ==
        (IF Len(meta_.title) > 0
           THEN <<S_dcTitleOpen \o langAlt(meta_.title) \o S_dcTitleClose>> ELSE <<>>)
        \o (IF Len(meta_.description) > 0 \/ Len(meta_.title) > 0
              THEN <<S_dcDescOpen
                     \o langAlt(IF Len(meta_.description) > 0 THEN meta_.description
                                ELSE meta_.title)
                     \o S_dcDescClose>>
              ELSE <<>>)
        \o (IF Len(keywords) > 0
              THEN <<S_dcSubjectOpen \o SubjectItems(keywords) \o S_dcSubjectClose>> ELSE <<>>)
  IN  S_GifXmpHead \o Join(parts, S_XmpSep) \o S_XmpTail

\* the comment bytes in one sub-block, however long they are
SubBlocksUnsplit(commentBytes, pos) ==
  IF ~(pos < Len(commentBytes)) THEN <<>>
  ELSE <<(Len(commentBytes) - pos) % 256>> \o SliceFrom(commentBytes, pos)

\* the sub-blocks of commentBytes from pos on, each a size byte and up to
\* 255 data bytes
RECURSIVE SubBlocksFrom(_, _)
SubBlocksFrom(commentBytes, pos) ==
  IF ~(pos < Len(commentBytes)) THEN <<>>
  ELSE LET size == Min(255, Len(commentBytes) - pos)
       IN  <<size>> \o Slice(commentBytes, pos, pos + size)
           \o SubBlocksFrom(commentBytes, pos + size)

\* a Comment Extension builder that builds nothing
noCommentExtension(comment) == <<>>

createCommentExtension(comment) ==
  <<33, 254>> \o SubBlocksFrom(Utf8Encode(comment), 0) \o <<0>>

\* an Application Extension without the application identifier
createXmpApplicationExtensionUnnamed(xmpStr) ==
  <<33, 255, 11>> \o Zeros(11) \o Utf8Encode(xmpStr)
  \o <<1>> \o [i \in 1..256 |-> 255 - (i - 1)] \o <<0>>

createXmpApplicationExtension(xmpStr) ==
  LET xmpBytes == Utf8Encode(xmpStr)
      magicTrailer == <<1>> \o [i \in 1..256 |-> 255 - (i - 1)] \o <<0>>
      header == <<33, 255, 11>> \o Utf8Encode(S_XmpDataXmp)
  IN  header \o xmpBytes \o magicTrailer

embedGifMetadata(data, metadata) ==
  IF Slice(data, 0, 6) # S_GIF87a /\ Slice(data, 0, 6) # S_GIF89a THEN Null
  ELSE
    LET commentParts ==
          (IF Len(metadata.title) > 0 THEN <<S_TitleColon \o metadata.title>> ELSE <<>>)
          \o (IF Len(metadata.description) > 0
                THEN <<S_DescriptionColon \o metadata.description>> ELSE <<>>)
          \o (IF Len(metadata.keywords) > 0
                THEN <<S_KeywordsColon \o metadata.keywords>> ELSE <<>>)
        commentExt == IF Len(commentParts) > 0
                        THEN createCommentExtension(Join(commentParts, S_Bar)) ELSE <<>>
        xmpExt == createXmpApplicationExtension(gif_buildXmpPacket(metadata))
        result == <<data[1], data[2], data[3], 56, 57, 97>> \o SliceFrom(data, 6)
        gctFlag == ByteAt(data, 10) >= 128
        gctSize == 3 * 2 ^ ((ByteAt(data, 10) % 8) + 1)
        insertPos == IF gctFlag THEN 13 + gctSize ELSE 13
        before == Slice(result, 0, insertPos)
        after == SliceFrom(result, insertPos)
    IN  Bytes(before \o commentExt \o xmpExt \o after)

---------------------------------------------------------------------------
(* SVG embedder (svgMetadata)                                              *)

\* File.text(): UTF-8 decode of the bytes from index i (1-based) on, to
\* UTF-16 code units; an ill-formed sequence gives U+FFFD and decoding
\* resumes at the byte that broke it
IsCont(d, i, lo, hi) == i <= Len(d) /\ d[i] >= lo /\ d[i] <= hi

\* the first index from i on of a byte that is not ASCII, Len(d) + 1 when
\* there is none
NextNonAscii(d, i) ==
  LET hits == {k \in i..Len(d) : d[k] >= 128}
  IN  IF hits = {} THEN Len(d) + 1 ELSE CHOOSE k \in hits : \A h \in hits : k <= h

RECURSIVE Utf8DecodeFrom(_, _)
Utf8DecodeFrom(d, i) ==
  IF i > Len(d) THEN <<>>
  ELSE IF d[i] < 128
    THEN LET j == NextNonAscii(d, i) IN SubSeq(d, i, j - 1) \o Utf8DecodeFrom(d, j)
  ELSE
    LET b == d[i]
        need == IF b < 128 THEN 0
                ELSE IF b >= 194 /\ b <= 223 THEN 1
                ELSE IF b >= 224 /\ b <= 239 THEN 2
                ELSE IF b >= 240 /\ b <= 244 THEN 3
                ELSE 0 - 1
        lo == IF b = 224 THEN 160 ELSE IF b = 240 THEN 144 ELSE 128
        hi == IF b = 237 THEN 159 ELSE IF b = 244 THEN 143 ELSE 191
    IN  IF need = 0 THEN <<b>> \o Utf8DecodeFrom(d, i + 1)
        ELSE IF need < 0 \/ ~IsCont(d, i + 1, lo, hi) THEN <<65533>> \o Utf8DecodeFrom(d, i + 1)
        ELSE IF need = 1
          THEN <<(b - 192) * 64 + (d[i + 1] - 128)>> \o Utf8DecodeFrom(d, i + 2)
        ELSE IF ~IsCont(d, i + 2, 128, 191) THEN <<65533>> \o Utf8DecodeFrom(d, i + 2)
        ELSE IF need = 2
          THEN <<(b - 224) * 4096 + (d[i + 1] - 128) * 64 + (d[i + 2] - 128)>>
               \o Utf8DecodeFrom(d, i + 3)
        ELSE IF ~IsCont(d, i + 3, 128, 191) THEN <<65533>> \o Utf8DecodeFrom(d, i + 3)
        ELSE LET cp == (b - 240) * 262144 + (d[i + 1] - 128) * 4096
                       + (d[i + 2] - 128) * 64 + (d[i + 3] - 128) - 65536
             IN  <<55296 + (cp \div 1024), 56320 + (cp % 1024)>> \o Utf8DecodeFrom(d, i + 4)

\* a leading byte order mark is dropped
Utf8Decode(d) ==
  IF Len(d) >= 3 /\ SubSeq(d, 1, 3) = <<239, 187, 191>> THEN Utf8DecodeFrom(d, 4)
  ELSE Utf8DecodeFrom(d, 1)

\* the canonical form a case-insensitive regular expression compares: only
\* the letters a-z have an upper-case partner among the pattern characters
FoldCase(c) == IF c >= 97 /\ c <= 122 THEN c - 32 ELSE c

MatchesAt(s, pat, i, ignoreCase) ==
  /\ i >= 1
  /\ i + Len(pat) - 1 <= Len(s)
  /\ \A k \in 1..Len(pat) :
       IF ignoreCase THEN FoldCase(s[i + k - 1]) = FoldCase(pat[k]) ELSE s[i + k - 1] = pat[k]

\* the first index from i on where pat occurs in s, 0 when there is none
IndexFrom(s, pat, i, ignoreCase) ==
  LET hits == {k \in i..(Len(s) - Len(pat) + 1) : MatchesAt(s, pat, k, ignoreCase)}
  IN  IF hits = {} THEN 0 ELSE CHOOSE k \in hits : \A h \in hits : k <= h

\* text.includes(pat)
Includes(s, pat) == IndexFrom(s, pat, 1, FALSE) > 0

\* s.replace(/open[\s\S]*?close/gi, ""): each match runs from an occurrence
\* of open to the nearest occurrence of close behind it
RECURSIVE RemoveElements(_, _, _)
RemoveElements(s, open, close) ==
  LET i == IndexFrom(s, open, 1, TRUE)
      j == IF i = 0 THEN 0 ELSE IndexFrom(s, close, i + Len(open), TRUE)
  IN  IF j = 0 THEN s
      ELSE SubSeq(s, 1, i - 1)
           \o RemoveElements(SubSeq(s, j + Len(close), Len(s)), open, close)

IsDigit(c) == c >= 48 /\ c <= 57

\* GetSubstitution for a pattern with one capturing group: the replacement
\* template from index k on, with $$, $&, $`, $', $1 and $01 expanded
RECURSIVE Substitute(_, _, _, _, _, _)
Substitute(template, k, matched, group1, before, after) ==
  IF k > Len(template) THEN <<>>
  ELSE IF template[k] # 36
    THEN LET j == IndexFrom(template, <<36>>, k, FALSE)
             stop == IF j = 0 THEN Len(template) + 1 ELSE j
         IN  SubSeq(template, k, stop - 1)
             \o Substitute(template, stop, matched, group1, before, after)
  ELSE IF k = Len(template) THEN <<36>>
  ELSE
    LET c == template[k + 1]
    IN  IF c = 36 THEN <<36>> \o Substitute(template, k + 2, matched, group1, before, after)
        ELSE IF c = 38 THEN matched \o Substitute(template, k + 2, matched, group1, before, after)
        ELSE IF c = 96 THEN before \o Substitute(template, k + 2, matched, group1, before, after)
        ELSE IF c = 39 THEN after \o Substitute(template, k + 2, matched, group1, before, after)
        ELSE IF c = 48 /\ k + 2 <= Len(template) /\ template[k + 2] = 49
          THEN group1 \o Substitute(template, k + 3, matched, group1, before, after)
        ELSE IF c = 49 THEN group1 \o Substitute(template, k + 2, matched, group1, before, after)
        ELSE <<36>> \o Substitute(template, k + 1, matched, group1, before, after)

\* s.replace(/(<svg[^>]*>)/i, template): the first "<svg" that has a ">"
\* behind it, up to the nearest ">"
ReplaceSvgTag(s, template) ==
  LET i == IndexFrom(s, S_svgLower, 1, TRUE)
      j == IF i = 0 THEN 0 ELSE IndexFrom(s, <<62>>, i + 4, FALSE)
  IN  IF j = 0 THEN s
      ELSE LET matched == SubSeq(s, i, j)
               before == SubSeq(s, 1, i - 1)
               after == SubSeq(s, j + 1, Len(s))
           IN  before \o Substitute(template, 1, matched, matched, before, after) \o after

RECURSIVE SvgSubjectItems(_)
SvgSubjectItems(keywords) ==
  IF Len(keywords) = 0 THEN <<>>
  ELSE <<S_SvgLiOpen \o escapeXml4(Head(keywords)) \o S_liClose>>
       \o SvgSubjectItems(Tail(keywords))

buildMetadataElement(meta_) ==
  LET keywords == KeywordList(meta_.keywords)
      parts ==
        (IF Len(meta_.title) > 0
           THEN <<S_SvgDcTitleOpen \o escapeXml4(meta_.title) \o S_dcTitleClose>> ELSE <<>>)
        \o (IF Len(meta_.description) > 0
              THEN <<S_SvgDcDescOpen \o escapeXml4(meta_.description) \o S_dcDescClose>>
              ELSE <<>>)
        \o (IF Len(keywords) > 0
              THEN <<S_SvgSubjectOpen \o Join(SvgSubjectItems(keywords), S_NL)
                     \o S_SvgSubjectClose>>
              ELSE <<>>)
  IN  IF Len(parts) = 0 THEN <<>>
      ELSE S_SvgMetaHead \o Join(parts, S_NL) \o S_SvgMetaTail

embedSvgMetadata(data, metadata) ==
  LET text == Utf8Decode(data)
      metaBlock == buildMetadataElement(metadata)
  IN  IF ~Includes(text, S_svgLower) /\ ~Includes(text, S_svgUpper) THEN Null
      ELSE IF Len(metaBlock) = 0 THEN Null
      ELSE
        LET noMeta == RemoveElements(text, S_metadataOpen, S_metadataClose)
            result ==
              IF Len(metadata.title) > 0
                THEN LET titleElement == S_titleTag \o escapeXml4(metadata.title) \o S_titleClose
                     IN  ReplaceSvgTag(RemoveElements(noMeta, S_titleOpen, S_titleClose),
                                       S_Dollar1NL \o titleElement \o S_NL \o metaBlock \o S_NL)
              ELSE ReplaceSvgTag(noMeta, S_Dollar1NL \o metaBlock \o S_NL)
        IN  Bytes(Utf8Encode(result))

---------------------------------------------------------------------------
(* Orchestrator (embedMetadata)                                            *)

\* String.prototype.toLowerCase of one code unit: the letters A-Z, and the
\* two characters outside ASCII whose lower case contains an ASCII letter
\* (the Kelvin sign, and dotted capital I); every other character outside
\* ASCII stays outside ASCII and is carried as it is
LowerUnit(c) ==
  IF c >= 65 /\ c <= 90 THEN <<c + 32>>
  ELSE IF c = 8490 THEN <<107>>
  ELSE IF c = 304 THEN <<105, 775>>
  ELSE <<c>>

RECURSIVE toLowerCase(_)
toLowerCase(s) == IF Len(s) = 0 THEN <<>> ELSE LowerUnit(Head(s)) \o toLowerCase(Tail(s))

\* s.split(c) for a one-character separator, the current piece starting at start
RECURSIVE SplitOnFrom(_, _, _, _)
SplitOnFrom(s, c, i, start) ==
  IF i > Len(s) THEN <<SubSeq(s, start, Len(s))>>
  ELSE IF s[i] = c THEN <<SubSeq(s, start, i - 1)>> \o SplitOnFrom(s, c, i + 1, i + 1)
  ELSE SplitOnFrom(s, c, i + 1, start)

SplitOn(s, c) == SplitOnFrom(s, c, 1, 1)

\* name.toLowerCase().split(".").pop() || ""
ExtOf(name) ==
  LET pieces == SplitOn(toLowerCase(name), 46)
  IN  pieces[Len(pieces)]

isJpegFile(f) == f.type = "image/jpeg" \/ ExtOf(f.name) = S_jpg \/ ExtOf(f.name) = S_jpeg
isPngFile(f) == f.type = "image/png" \/ ExtOf(f.name) = S_png
isWebpFile(f) == f.type = "image/webp" \/ ExtOf(f.name) = S_webp
isSvgFile(f) == f.type = "image/svg+xml" \/ ExtOf(f.name) = S_svg
isGifFile(f) == f.type = "image/gif" \/ ExtOf(f.name) = S_gif

\* .replace(/[^a-z0-9\s-]/g, "")
RECURSIVE KeepNameChars(_)
KeepNameChars(s) ==
  IF Len(s) = 0 THEN <<>>
  ELSE LET c == Head(s)
       IN  (IF (c >= 97 /\ c <= 122) \/ IsDigit(c) \/ IsSpace(c) \/ c = 45 THEN <<c>> ELSE <<>>)
           \o KeepNameChars(Tail(s))

\* .replace(/\s+/g, "-") when space is TRUE, .replace(/-+/g, "-") when not:
\* every run of the characters becomes one "-"
RECURSIVE CollapseRuns(_, _)
CollapseRuns(s, space) ==
  IF Len(s) = 0 THEN <<>>
  ELSE LET inRun(c) == IF space THEN IsSpace(c) ELSE c = 45
       IN  IF ~inRun(s[1]) THEN <<s[1]>> \o CollapseRuns(Tail(s), space)
           ELSE IF Len(s) >= 2 /\ inRun(s[2]) THEN CollapseRuns(Tail(s), space)
           ELSE <<45>> \o CollapseRuns(Tail(s), space)

\* .replace(/^-|-$/g, "")
StripEdgeDashes(s) ==
  LET a == IF Len(s) > 0 /\ s[1] = 45 THEN Tail(s) ELSE s
  IN  IF Len(a) > 0 /\ a[Len(a)] = 45 THEN SubSeq(a, 1, Len(a) - 1) ELSE a

sanitizeFilename(title) ==
  StripEdgeDashes(CollapseRuns(CollapseRuns(KeepNameChars(toLowerCase(title)), TRUE), FALSE))

\* lines 89-99
NewFilename(f, output_, settings_) ==
  LET ext == ExtOf(f.name)
      sanitized == sanitizeFilename(output_.title)
  IN  IF settings_.renameWithTitle /\ Len(output_.title) > 0 /\ Len(sanitized) > 0
        THEN sanitized \o <<46>> \o (IF ext = S_jpeg THEN S_jpg ELSE ext)
      ELSE f.name

RECURSIVE TrimAll(_)
TrimAll(ss) == IF Len(ss) = 0 THEN <<>> ELSE <<Trim(Head(ss))>> \o TrimAll(Tail(ss))

\* [...new Set(ss)]: the first occurrence of each string, in order
RECURSIVE Dedup(_, _)
Dedup(ss, seen) ==
  IF Len(ss) = 0 THEN <<>>
  ELSE IF Head(ss) \in seen THEN Dedup(Tail(ss), seen)
  ELSE <<Head(ss)>> \o Dedup(Tail(ss), seen \cup {Head(ss)})

\* lines 112-138: the EmbedMetadataInput built from the output and the settings
BuildMetadata(output_, settings_) ==
  LET kw == IF Len(output_.keywords) > 0 THEN SplitOn(output_.keywords, 44) ELSE <<>>
      cats == IF Len(output_.categories) > 0 THEN SplitOn(output_.categories, 44) ELSE <<>>
      merged == FilterNonEmpty(TrimAll(kw \o cats))
  IN  [title |-> IF settings_.embedTitle THEN output_.title ELSE <<>>,
       description |-> IF settings_.embedDescription THEN output_.description ELSE <<>>,
       altText |-> output_.altText,
       keywords |-> IF settings_.embedKeywords /\ Len(merged) > 0
                      THEN Join(Dedup(merged, {}), S_CommaSpace) ELSE <<>>,
       category |-> <<>>]

\* lines 142-160: the embedder chosen by the file's name and type, its
\* outcome and the type of the blob it gives
Dispatch(f, metadata) ==
  IF isJpegFile(f) THEN [res |-> embedJpegMetadata(f.bytes, metadata), mimeType |-> "image/jpeg"]
  ELSE IF isPngFile(f) THEN [res |-> embedPngMetadata(f.bytes, metadata), mimeType |-> "image/png"]
  ELSE IF isWebpFile(f)
    THEN [res |-> embedWebpMetadata(f.bytes, metadata), mimeType |-> "image/webp"]
  ELSE IF isSvgFile(f)
    THEN [res |-> embedSvgMetadata(f.bytes, metadata), mimeType |-> "image/svg+xml"]
  ELSE IF isGifFile(f) THEN [res |-> embedGifMetadata(f.bytes, metadata), mimeType |-> "image/gif"]
  ELSE [res |-> NoCall, mimeType |-> f.type]

Returned(blob, type, filename, embedded) ==
  [state |-> "returned", blob |-> blob, type |-> type, filename |-> filename,
   embedded |-> embedded]

Raised == [state |-> "raised", blob |-> <<>>, type |-> "", filename |-> <<>>, embedded |-> FALSE]

\* an orchestrator without the try/catch of lines 110 and 176-184
SettleNoCatch(f, newFilename, d) ==
  IF d.res.kind = "throw" THEN Raised
  ELSE IF d.res.kind # "bytes" THEN Returned(f.bytes, f.type, newFilename, FALSE)
  ELSE Returned(d.res.bytes, d.mimeType, newFilename, TRUE)

\* lines 162-184: what the caller gets for the embedder's outcome
Settle(f, newFilename, d) ==
  IF d.res.kind = "throw" THEN Returned(f.bytes, f.type, newFilename, FALSE)
  ELSE IF d.res.kind # "bytes" THEN Returned(f.bytes, f.type, newFilename, FALSE)
  ELSE Returned(d.res.bytes, d.mimeType, newFilename, TRUE)
---------------------------------------------------------------------------
(* Inputs                                                                  *)

\* the longest list of header segments / chunks placed in an input file
MaxSegs == 2
\* the longest chain of embedder calls, each on the previous call's output
MaxCalls == 2

SeqsUpTo(S, n) == UNION {[1..k -> S] : k \in 0..n}

T_RedFox == <<82, 101, 100, 32, 70, 111, 120>>               \* "Red Fox"
T_Quoted == <<97, 60, 98, 38, 34, 233, 34>>                   \* a<b&"e-acute"
T_FoxForest == <<102, 111, 120, 44, 32, 102, 111, 114, 101, 115, 116>>  \* "fox, forest"
T_Alt == <<97, 108, 116>>                                     \* "alt"

NoMeta == [title |-> <<>>, description |-> <<>>, altText |-> <<>>, keywords |-> <<>>,
           category |-> <<>>]

\* metadata records: nothing, a title only, description and keywords, everything
MetaTitle == [NoMeta EXCEPT !.title = T_RedFox]
MetaDescKw == [NoMeta EXCEPT !.description = T_Quoted, !.keywords = T_FoxForest]
MetaAll == [title |-> T_RedFox, description |-> T_Quoted, altText |-> T_Alt,
            keywords |-> T_FoxForest, category |-> <<>>]
Metas == {NoMeta, MetaTitle, MetaDescKw, MetaAll}

\* JPEG: SOI, up to MaxSegs header segments, then a tail
SegAPP0 == <<255, 224, 0, 4, 74, 70>>
SegExif == <<255, 225, 0, 8>> \o S_ExifIdent
SegAPP13 == <<255, 237, 0, 3, 80>>
SegAPP2 == <<255, 226, 0, 3, 1>>
JpegSegChoices == {SegAPP0, SegExif, SegAPP13, SegAPP2}

\* DQT, SOS with one byte of scan data, EOI
TailScan == <<255, 219, 0, 3, 7, 255, 218, 0, 2, 17, 255, 217>>
\* an APP1 segment declaring 16 bytes of which 3 are there
TailCutAPP1 == <<255, 225, 0, 16, 69>>
\* an APP0 marker cut before its length field
TailCutAPP0 == <<255, 224>>
JpegTails == {TailScan, TailCutAPP1, TailCutAPP0}

JpegInputs ==
  {<<255, 216>> \o Flatten(segs) \o tail : segs \in SeqsUpTo(JpegSegChoices, MaxSegs),
                                           tail \in JpegTails}

\* PNG: signature, IHDR, up to MaxSegs chunks, then a tail
T_IHDR == <<73, 72, 68, 82>>
T_IDAT == <<73, 68, 65, 84>>
T_IEND == <<73, 69, 78, 68>>
IhdrChunk == buildChunk(T_IHDR, <<0, 0, 0, 1, 0, 0, 0, 1, 8, 2, 0, 0, 0>>)
ChunkIDAT == buildChunk(T_IDAT, <<120, 1>>)
ChunkOldText == buildChunk(S_tEXt, Utf8Encode(S_Comment) \o <<0, 111, 108, 100>>)
ChunkOldITXt == buildChunk(S_iTXt, Utf8Encode(S_Title) \o <<0, 0, 0, 0, 0, 79, 108, 100>>)
ChunkOldZTXt == buildChunk(S_zTXt, Utf8Encode(S_Title) \o <<0, 0, 120>>)
PngChunkChoices == {ChunkIDAT, ChunkOldText, ChunkOldITXt, ChunkOldZTXt}

ChunkIEND == buildChunk(T_IEND, <<>>)
\* an IDAT chunk declaring 100 data bytes of which 3 are there
TailCutIDAT == BE32(100) \o T_IDAT \o <<1, 2, 3>>
PngTails == {ChunkIEND, TailCutIDAT}

PngInputs ==
  {PngSignature \o IhdrChunk \o Flatten(cs) \o tail :
     cs \in SeqsUpTo(PngChunkChoices, MaxSegs), tail \in PngTails}

\* WebP: RIFF header, up to MaxSegs chunks, then a tail
T_VP8 == <<86, 80, 56, 32>>
T_EXIF == <<69, 88, 73, 70>>
RiffChunk(id, data) == id \o LE32(Len(data)) \o data \o Zeros(Len(data) % 2)
ChunkVP8 == RiffChunk(T_VP8, <<1, 2>>)
ChunkOddEXIF == RiffChunk(T_EXIF, <<7, 8, 9>>)
ChunkOldXMP == RiffChunk(Utf8Encode(S_XMPsp), <<60, 120, 47, 62>>)
WebpChunkChoices == {ChunkVP8, ChunkOddEXIF, ChunkOldXMP}

\* a chunk declaring 100 bytes of which 2 are there
TailCutVP8 == T_VP8 \o LE32(100) \o <<1, 2>>
\* a complete odd-sized chunk whose pad byte is missing at the end of the file
TailNoPad == T_EXIF \o LE32(3) \o <<7, 8, 9>>
WebpTails == {<<>>, TailCutVP8, TailNoPad}

WebpInputs ==
  {LET body == Flatten(cs) \o tail
   IN  Utf8Encode(S_RIFF) \o LE32(4 + Len(body)) \o Utf8Encode(S_WEBP) \o body :
     cs \in SeqsUpTo(WebpChunkChoices, MaxSegs), tail \in WebpTails}

NoRet == [state |-> "none", blob |-> <<>>, type |-> "", filename |-> <<>>, embedded |-> FALSE]
NoOutput == [title |-> <<>>, description |-> <<>>, altText |-> <<>>, keywords |-> <<>>,
             categories |-> <<>>]
NoSettings == [enabled |-> FALSE, embedTitle |-> FALSE, embedDescription |-> FALSE,
               embedKeywords |-> FALSE, renameWithTitle |-> FALSE]

---------------------------------------------------------------------------
(* The embedders as operations: a first call on a file's bytes, then       *)
(* further calls on the previous call's output                             *)

InitEmbedder(inputs) ==
  /\ file \in {[name |-> <<>>, type |-> "", bytes |-> b] : b \in inputs}
  /\ meta \in Metas
  /\ output = NoOutput
  /\ settings = NoSettings
  /\ pc = "start"
  /\ input = <<>>
  /\ res = NoCall
  /\ calls = 0
  /\ ret = NoRet
  /\ DashboardIdle /\ DownloadIdle

FirstCall(name, result) ==
  /\ pc = "start"
  /\ pc' = name
  /\ input' = file.bytes
  /\ res' = result
  /\ calls' = 1
  /\ UNCHANGED <<file, output, settings, meta, ret>>
  /\ UNCHANGED <<dashVars, zipVars>>

NextCall(name, result) ==
  /\ pc = name
  /\ res.kind = "bytes"
  /\ calls < MaxCalls
  /\ input' = res.bytes
  /\ res' = result
  /\ calls' = calls + 1
  /\ UNCHANGED <<file, output, settings, meta, pc, ret>>
  /\ UNCHANGED <<dashVars, zipVars>>

EmbedJpeg == FirstCall("jpeg", embedJpegMetadata(file.bytes, meta))
EmbedJpegAgain == NextCall("jpeg", embedJpegMetadata(res.bytes, meta))
EmbedPng == FirstCall("png", embedPngMetadata(file.bytes, meta))
EmbedPngAgain == NextCall("png", embedPngMetadata(res.bytes, meta))
EmbedWebp == FirstCall("webp", embedWebpMetadata(file.bytes, meta))
EmbedWebpAgain == NextCall("webp", embedWebpMetadata(res.bytes, meta))

InitJpeg == InitEmbedder(JpegInputs \cup {PngSignature \o IhdrChunk})
NextJpeg == EmbedJpeg \/ EmbedJpegAgain
SpecJpeg == InitJpeg /\ [][NextJpeg]_vars

InitChunked == InitEmbedder(PngInputs \cup WebpInputs)
NextChunked == EmbedPng \/ EmbedPngAgain \/ EmbedWebp \/ EmbedWebpAgain
SpecChunked == InitChunked /\ [][NextChunked]_vars


---------------------------------------------------------------------------
(* The orchestrator as an operation on a file, a generated output and the  *)
(* embed settings                                                           *)

\* header, logical screen descriptor without colour table, trailer
GifPlain == S_GIF87a \o <<1, 0, 1, 0, 0, 0, 0>> \o <<59>>
JpegPlain == <<255, 216>> \o SegAPP0 \o TailScan
JpegCut == <<255, 216>> \o SegAPP0 \o TailCutAPP1
PngPlain == PngSignature \o IhdrChunk \o ChunkOldText \o ChunkIDAT \o ChunkIEND
WebpPlain == Utf8Encode(S_RIFF) \o LE32(4 + Len(ChunkVP8)) \o Utf8Encode(S_WEBP) \o ChunkVP8
SvgPlain == Utf8Encode(T_SvgDoc)

FileNames == {F_PhotoJpg, F_ShotJPEG, F_IconPng, F_PicWebp, F_LogoSvg, F_AnimGif, F_Readme}
FileBytes == {JpegPlain, JpegCut, PngPlain, WebpPlain, SvgPlain, GifPlain, <<>>}

\* every name with every content and no declared type, and files known by
\* their declared type only
Files ==
  {[name |-> n, type |-> "", bytes |-> b] : n \in FileNames, b \in FileBytes}
  \cup {[name |-> F_Readme, type |-> t, bytes |-> b] :
          t \in {"image/jpeg", "image/png", "image/gif"}, b \in {JpegCut, PngPlain, GifPlain}}

Outputs ==
  {NoOutput,
   [title |-> T_RedFox, description |-> T_Quoted, altText |-> T_Alt,
    keywords |-> T_FoxForest, categories |-> T_Cats],
   [title |-> T_BigCat, description |-> <<>>, altText |-> <<>>,
    keywords |-> T_KwMessy, categories |-> <<>>]}

Settings ==
  [enabled : BOOLEAN, embedTitle : BOOLEAN, embedDescription : BOOLEAN,
   embedKeywords : BOOLEAN, renameWithTitle : BOOLEAN]

Init ==
  /\ file \in Files
  /\ output \in Outputs
  /\ settings \in Settings
  /\ meta = NoMeta
  /\ pc = "start"
  /\ input = <<>>
  /\ res = NoCall
  /\ calls = 0
  /\ ret = NoRet
  /\ DashboardIdle /\ DownloadIdle

\* embedMetadataIntoImage(file, output, settings)
EmbedMetadataIntoImage ==
  /\ pc = "start"
  /\ pc' = "returned"
  /\ LET newFilename == NewFilename(file, output, settings)
         metadata == BuildMetadata(output, settings)
         d == Dispatch(file, metadata)
     IN  IF ~settings.enabled
           THEN /\ ret' = Returned(file.bytes, file.type, newFilename, FALSE)
                /\ UNCHANGED <<meta, input, res, calls>>
         ELSE /\ meta' = metadata
              /\ input' = file.bytes
              /\ res' = d.res
              /\ calls' = IF d.res.kind = "none" THEN 0 ELSE 1
              /\ ret' = Settle(file, newFilename, d)
  /\ UNCHANGED <<file, output, settings>>
  /\ UNCHANGED <<dashVars, zipVars>>

Next == EmbedMetadataIntoImage
Spec == Init /\ [][Next]_vars

---------------------------------------------------------------------------
(* The JPEG embedder on titles of many lengths, up to ones whose EXIF      *)
(* block passes 65535 bytes                                                *)

\* the short titles have 1 to MaxShortTitle characters
MaxShortTitle == 50
\* the long titles have LongTitle and LongTitle + 1 characters
LongTitle == 7273

\* n euro signs, three UTF-8 bytes each
TitleOfLength(n) == [i \in 1..n |-> 8364]

LongMetas ==
  {[NoMeta EXCEPT !.title = TitleOfLength(n)] :
     n \in (1..MaxShortTitle) \cup {LongTitle, LongTitle + 1}}

InitJpegLong ==
  /\ file \in {[name |-> <<>>, type |-> "", bytes |-> b] :
                 b \in {JpegPlain, <<255, 216>> \o TailScan}}
  /\ meta \in LongMetas
  /\ output = NoOutput
  /\ settings = NoSettings
  /\ pc = "start"
  /\ input = <<>>
  /\ res = NoCall
  /\ calls = 0
  /\ ret = NoRet
  /\ DashboardIdle /\ DownloadIdle

SpecJpegLong == InitJpegLong /\ [][NextJpeg]_vars

---------------------------------------------------------------------------
(* The GIF embedder as an operation, on files with and without a global    *)
(* colour table, with and without blocks behind it, and on files that end  *)
(* before the insertion offset                                             *)

\* the longest description has LongDesc characters, more than one
\* sub-block of a Comment Extension holds
LongDesc == 300

MetaLongDesc == [NoMeta EXCEPT !.description = [i \in 1..LongDesc |-> 97]]
GifMetas == Metas \cup {MetaLongDesc}

\* Logical Screen Descriptor: width 1, height 1, the packed byte, background
\* colour index, aspect ratio
GifLSD(packed) == <<1, 0, 1, 0, packed, 0, 0>>
\* packed bytes: no table; a table of 2 colours; of 4 colours; no table but
\* the size bits set
GifPackedChoices == {0, 128, 129, 7}
GifColourTable(packed) ==
  IF packed >= 128 THEN [i \in 1..(3 * 2 ^ ((packed % 8) + 1)) |-> 16 + i] ELSE <<>>

\* an image of one pixel, and the trailer
GifImage == <<44, 0, 0, 0, 0, 1, 0, 1, 0, 0, 2, 2, 76, 1, 0>>
GifTrailer == <<59>>
\* blocks a file may already hold: a Comment Extension "old", and an XMP
\* Application Extension around the packet "<x/>"
GifOldComment == <<33, 254, 3, 111, 108, 100, 0>>
GifOldXmp ==
  <<33, 255, 11>> \o S_XmpDataXmp \o <<60, 120, 47, 62>>
  \o <<1>> \o [i \in 1..256 |-> 256 - i] \o <<0>>
GifBodies ==
  {<<>>, GifImage \o GifTrailer, GifOldComment \o GifImage \o GifTrailer,
   GifOldXmp \o GifOldComment \o GifImage \o GifTrailer}

GifInputs ==
  {sig \o GifLSD(packed) \o GifColourTable(packed) \o body :
     sig \in {S_GIF87a, S_GIF89a}, packed \in GifPackedChoices, body \in GifBodies}
  \cup {S_GIF89a,                                  \* nothing behind the signature
        S_GIF87a \o GifLSD(128) \o <<17, 18, 19>>, \* the colour table cut short
        PngSignature \o IhdrChunk}                 \* not a GIF

EmbedGif == FirstCall("gif", embedGifMetadata(file.bytes, meta))
EmbedGifAgain == NextCall("gif", embedGifMetadata(res.bytes, meta))

InitGif ==
  /\ file \in {[name |-> <<>>, type |-> "", bytes |-> b] : b \in GifInputs}
  /\ meta \in GifMetas
  /\ output = NoOutput
  /\ settings = NoSettings
  /\ pc = "start"
  /\ input = <<>>
  /\ res = NoCall
  /\ calls = 0
  /\ ret = NoRet
  /\ DashboardIdle /\ DownloadIdle

NextGif == EmbedGif \/ EmbedGifAgain
SpecGif == InitGif /\ [][NextGif]_vars

---------------------------------------------------------------------------
(* The JPEG embedder on every combination of present fields, with texts of *)
(* one character (values that fit an IFD entry's value field) and longer   *)

T_A == <<65>>                     \* "A"
T_Eacute == <<233>>               \* e-acute
T_K == <<107>>                    \* "k"
T_Grin == <<55357, 56832>>        \* U+1F600, a surrogate pair

FieldMetas ==
  {[title |-> t, description |-> d, altText |-> <<>>, keywords |-> k, category |-> c] :
     t \in {<<>>, T_A, T_RedFox, T_Grin}, d \in {<<>>, T_Eacute, T_Quoted},
     k \in {<<>>, T_K, T_FoxForest}, c \in {<<>>, T_Cats}}

InitJpegFields ==
  /\ file \in {[name |-> <<>>, type |-> "", bytes |-> b] :
                 b \in {JpegPlain, <<255, 216>> \o TailScan}}
  /\ meta \in FieldMetas
  /\ output = NoOutput
  /\ settings = NoSettings
  /\ pc = "start"
  /\ input = <<>>
  /\ res = NoCall
  /\ calls = 0
  /\ ret = NoRet
  /\ DashboardIdle /\ DownloadIdle

SpecJpegFields == InitJpegFields /\ [][NextJpeg]_vars

---------------------------------------------------------------------------
(* The JPEG embedder on metadata whose XMP segment is just below, at and   *)
(* just above the 65535 bytes a segment's length field can hold: a title   *)
(* of quotation marks, which take 6 bytes each in the XMP packet and 1 or  *)
(* 2 in the EXIF block, and an altText that only the XMP packet carries    *)

\* the long title has XmpTitle characters
XmpTitle == 2692

Quotes(n) == [i \in 1..n |-> 34]
Xs(n) == [i \in 1..n |-> 120]

\* the fields createXMPSegment gets from embedJpegMetadata for a record
\* with a title and an altText
XmpFieldsOf(metadata) ==
  [title |-> Trim(metadata.title), description |-> Trim(metadata.title),
   label |-> Trim(metadata.title), altText |-> Trim(metadata.altText), keywords |-> <<>>]

\* the number of altText characters "x" that fit next to the long title:
\* what is left of 65535 by the segment for the long title alone, whose
\* packet carries the title in the place of the altText as well
XmpRoom ==
  65535 - (2 + Len(Utf8Encode(S_XapIdent))
           + Len(Utf8Encode(jpeg_xmpPacket(
               XmpFieldsOf([NoMeta EXCEPT !.title = Quotes(XmpTitle)]))))
           - Len(Quotes(XmpTitle)) * 6)

\* short titles; the long title with an altText that fits by two bytes, by
\* one, exactly, and overflows by one and by two; and an altText alone that
\* overflows, for which no EXIF block is built
XmpMetas ==
  {[NoMeta EXCEPT !.title = Quotes(n), !.altText = Xs(1)] : n \in 1..MaxShortTitle}
  \cup {[NoMeta EXCEPT !.title = Quotes(XmpTitle), !.altText = Xs(j)] :
          j \in (XmpRoom - 2)..(XmpRoom + 2)}
  \cup {[NoMeta EXCEPT !.altText = Quotes(4 * XmpTitle + 200)]}

InitJpegXmp ==
  /\ file \in {[name |-> <<>>, type |-> "", bytes |-> b] :
                 b \in {JpegPlain, <<255, 216>> \o TailScan}}
  /\ meta \in XmpMetas
  /\ output = NoOutput
  /\ settings = NoSettings
  /\ pc = "start"
  /\ input = <<>>
  /\ res = NoCall
  /\ calls = 0
  /\ ret = NoRet
  /\ DashboardIdle /\ DownloadIdle

SpecJpegXmp == InitJpegXmp /\ [][NextJpeg]_vars

----------------------------------------------------------------------------
(* The SVG embedder called on its own output: documents with a lower-case  *)
(* and an upper-case root tag, with an XML prolog, with title elements at   *)
(* the top and nested, texts that are no SVG, and titles holding the        *)
(* characters escapeXml rewrites and the "$" patterns of String.replace,    *)
(* documents cut off inside the root tag or holding a self-closed or a      *)
(* nested metadata element, and keyword strings with blank entries          *)

SvgDocs ==
  {T_SvgDoc, T_SvgBare, T_SvgUpper, T_SvgProlog, T_SvgNested, T_SvgMixed, T_NotSvg,
   T_SvgCut, T_SvgSelfClosed, T_SvgNestedMeta}
SvgInputs == {Utf8Encode(t) : t \in SvgDocs}

SvgMetas ==
  Metas \cup {[NoMeta EXCEPT !.title = t] : t \in {T_Quoted, T_BigCat, T_TwoDollars}}
        \cup {[NoMeta EXCEPT !.keywords = k] :
                k \in {T_KwMessy, T_KwCommas, T_KwBlank, T_KwSpaced}}

EmbedSvg == FirstCall("svg", embedSvgMetadata(file.bytes, meta))
EmbedSvgAgain == NextCall("svg", embedSvgMetadata(res.bytes, meta))

InitSvg ==
  /\ file \in {[name |-> <<>>, type |-> "", bytes |-> b] : b \in SvgInputs}
  /\ meta \in SvgMetas
  /\ output = NoOutput
  /\ settings = NoSettings
  /\ pc = "start"
  /\ input = <<>>
  /\ res = NoCall
  /\ calls = 0
  /\ ret = NoRet
  /\ DashboardIdle /\ DownloadIdle

NextSvg == EmbedSvg \/ EmbedSvgAgain
SpecSvg == InitSvg /\ [][NextSvg]_vars

----------------------------------------------------------------------------
(* createCommentExtension on its own: comment texts of 1 to MaxComment      *)
(* one-byte characters, and texts of two-byte and three-byte characters     *)
(* whose UTF-8 length lies around 255. In this specification input holds    *)
(* the comment string the function is called with.                          *)

MaxComment == 520

Comments ==
  {Xs(n) : n \in 1..MaxComment}
    \cup {[i \in 1..n |-> 233] : n \in 127..129}
    \cup {[i \in 1..n |-> 8364] : n \in 84..86}

BuildComment ==
  /\ pc = "start"
  /\ pc' = "comment"
  /\ res' = Bytes(createCommentExtension(input))
  /\ calls' = 1
  /\ UNCHANGED <<file, output, settings, meta, input, ret>>
  /\ UNCHANGED <<dashVars, zipVars>>

InitComment ==
  /\ file = [name |-> <<>>, type |-> "", bytes |-> <<>>]
  /\ meta = NoMeta
  /\ output = NoOutput
  /\ settings = NoSettings
  /\ pc = "start"
  /\ input \in Comments
  /\ res = NoCall
  /\ calls = 0
  /\ ret = NoRet
  /\ DashboardIdle /\ DownloadIdle

NextComment == BuildComment
SpecComment == InitComment /\ [][NextComment]_vars

----------------------------------------------------------------------------
(* The dashboard (MetaGenDashboard): the batch of items, the generation    *)
(* runs and the user's buttons. A step of a run is the code between two    *)
(* awaits that wait for something outside the page (the image encoder, the *)
(* provider, a timer); the callbacks of a run see the items and keys of    *)
(* the render in which the run was started. What a provider response says  *)
(* is a choice: a text that is complete, a text that needs a repair        *)
(* request, or an error.                                                    *)

MinIntervalMs == 6000    \* createSimpleRateLimiter({ minIntervalMs: 6000 })

TickMs == 3000           \* the clock advances in steps of TickMs
MaxNow == 12000          \* the clock stops here
MaxItems == 2            \* files uploaded in one behaviour
MaxKeys == 2             \* stored keys
MaxRuns == 2             \* runGeneration calls in one behaviour
MaxRepairs == 1          \* repair requests per item (the code makes up to 6)

Max(a, b) == IF a > b THEN a ELSE b

\* the embedders and the download button untouched
EmbedIdle ==
  /\ file = [name |-> <<>>, type |-> "", bytes |-> <<>>]
  /\ meta = NoMeta
  /\ output = NoOutput
  /\ settings = NoSettings
  /\ pc = "start"
  /\ input = <<>>
  /\ res = NoCall
  /\ calls = 0
  /\ ret = NoRet

\* what generateWithProvider gives: a text, or an Error whose message holds
\* "[status]" and may mention a key
Ok == [ok |-> TRUE, status |-> 200, mentionsKey |-> FALSE]
Err(status, mentionsKey) == [ok |-> FALSE, status |-> status, mentionsKey |-> mentionsKey]
Errors == {Err(400, TRUE), Err(401, FALSE), Err(429, FALSE), Err(500, FALSE)}

shouldTryNextKey(err) ==
  IF err.status \in {413, 400} THEN FALSE
  ELSE IF err.status \in {401, 403} THEN TRUE
  ELSE IF err.mentionsKey THEN TRUE
  ELSE err.status = 429

\* the rate limiter
canRun == now - lastAt >= MinIntervalMs
msUntilNext == Max(0, MinIntervalMs - (now - lastAt))

\* keys.length > 0 && items.length > 0 && !isGenerating
canGenerate == Len(apiKeys) > 0 /\ Len(items) > 0 /\ ~isGenerating

\* the record of one runOnce: the keys tried with what each gave, whether
\* a text came back, and the active key index before and after
NoOnce == [tried |-> <<>>, ok |-> FALSE, before |-> 0, after |-> 0, done |-> FALSE]

\* a run that has not begun its first item
NewRun(hasTargets, targetIds) ==
  [pc |-> "loop", hasTargets |-> hasTargets, targetIds |-> targetIds,
   snapshot |-> items,
   baseStart |-> Min(activeKeyIndex, Max(0, Len(apiKeys) - 1)),
   idx |-> 1, item |-> 0, stage |-> "first", rounds |-> 0, i |-> 0, wake |-> 0,
   tried |-> <<>>, activeAtStart |-> 0, once |-> NoOnce]

\* a run that has ended keeps only the record of its last runOnce
Ended(r) ==
  [pc |-> "ended", hasTargets |-> FALSE, targetIds |-> {}, snapshot |-> <<>>,
   baseStart |-> 0, idx |-> 1, item |-> 0, stage |-> "first", rounds |-> 0, i |-> 0,
   wake |-> 0, tried |-> <<>>, activeAtStart |-> 0, once |-> r.once]

Active(r) == r.pc # "ended"

\* setItems((p) => p.map((x) => (x.id === id ? { ...x, status } : x)))
SetStatus(its, id, status) ==
  [k \in 1..Len(its) |-> IF its[k].id = id THEN [its[k] EXCEPT !.status = status] ELSE its[k]]

\* the three "continue" tests of the for loop, on the item of the closure
Qualifies(r, it) ==
  /\ r.hasTargets => it.id \in r.targetIds
  /\ it.status # "generating"
  /\ ~(~r.hasTargets /\ it.status = "done")

\* the position of the next item of the closure the loop does not skip, 0
\* when none is left
NextIndex(r) ==
  LET c == {k \in r.idx..Len(r.snapshot) : Qualifies(r, r.snapshot[k])}
  IN  IF c = {} THEN 0 ELSE CHOOSE k \in c : \A h \in c : k <= h

\* the key index of the request number i (from 0) of a runOnce
KeyAt(r, i) == (r.baseStart + i) % Len(apiKeys)

\* the log keeps the last two requests
Log(reqs, q) == IF Len(reqs) < 2 THEN Append(reqs, q) ELSE <<reqs[2], q>>

\* the for loop of runGeneration from the closure position r.idx on: the
\* next item is set to "generating" and its image is prepared, or the loop
\* waits while paused, or it ends and the finally block runs; rs is the
\* sequence of runs with run n in it, its the items as left so far
ContinueLoop(rs, n, r, its, paused, generating) ==
  LET k == NextIndex(r)
  IN  /\ lastAt' = lastAt
      /\ requests' = requests
      /\ IF k = 0
           THEN /\ runs' = [rs EXCEPT ![n] = Ended(r)]
                /\ items' = its
                /\ isGenerating' = FALSE
           ELSE LET r2 == [r EXCEPT !.idx = k + 1, !.item = r.snapshot[k].id,
                                    !.stage = "first", !.rounds = 0]
                IN  /\ isGenerating' = generating
                    /\ IF paused
                         THEN /\ runs' = [rs EXCEPT ![n] = [r2 EXCEPT !.pc = "paused"]]
                              /\ items' = its
                         ELSE /\ runs' = [rs EXCEPT ![n] = [r2 EXCEPT !.pc = "base64"]]
                              /\ items' = SetStatus(its, r2.item, "generating")

\* runOnce up to its first await: the limiter is asked, and either the
\* first request goes out or the call sleeps
RunOnceBegin(n, r, active) ==
  /\ items' = items
  /\ isGenerating' = isGenerating
  /\ IF canRun
       THEN /\ lastAt' = now
            /\ requests' = Log(requests, [at |-> now, key |-> KeyAt(r, 0), run |-> n])
            /\ runs' = [runs EXCEPT ![n] = [r EXCEPT !.pc = "request", !.i = 0,
                                                     !.tried = <<>>, !.activeAtStart = active]]
       ELSE /\ lastAt' = lastAt
            /\ requests' = requests
            /\ runs' = [runs EXCEPT ![n] = [r EXCEPT !.pc = "sleep", !.i = 0, !.tried = <<>>,
                                                     !.wake = now + msUntilNext,
                                                     !.activeAtStart = active]]

\* generateOne behind a runOnce that returned: text tells whether a text
\* came back, choice what the parsed fields call for
AfterOnce(n, r, text, choice, active) ==
  IF r.stage = "first" /\ ~text
    THEN ContinueLoop(runs, n, r, SetStatus(items, r.item, "error"), pauseRef, isGenerating)
  ELSE IF choice = "repair"
    THEN RunOnceBegin(n, [r EXCEPT !.stage = "repair", !.rounds = r.rounds + 1], active)
  ELSE ContinueLoop(runs, n, r, SetStatus(items, r.item, choice), pauseRef, isGenerating)

\* what may follow a runOnce
Choices(r) ==
  (IF r.rounds < MaxRepairs THEN {"repair"} ELSE {})
    \cup (IF r.stage = "repair" THEN {"done", "error"} ELSE {"done"})

\* runGeneration up to its first await
StartRun(hasTargets, targetIds, its) ==
  /\ Len(runs) < MaxRuns
  /\ Len(apiKeys) > 0
  /\ Len(items) > 0
  /\ isPaused' = FALSE
  /\ pauseRef' = FALSE
  /\ LET r == NewRun(hasTargets, targetIds)
     IN  ContinueLoop(Append(runs, r), Len(runs) + 1, r, its, FALSE, TRUE)
  /\ UNCHANGED <<apiKeys, activeKeyIndex, now, nextId>>
  /\ UNCHANGED <<embedVars, zipVars>>

\* the Generate button
Generate ==
  /\ canGenerate
  /\ StartRun(FALSE, {}, items)

\* the Re-generate All button
RegenerateAll ==
  /\ \E k \in 1..Len(items) : items[k].status = "done"
  /\ ~isGenerating
  /\ LET doneIds == {items[k].id : k \in {j \in 1..Len(items) : items[j].status = "done"}}
     IN  StartRun(TRUE, doneIds,
                  [k \in 1..Len(items) |->
                     IF items[k].id \in doneIds THEN [items[k] EXCEPT !.status = "queued"]
                     ELSE items[k]])

\* a row's Regenerate button
regenerateRow(id) ==
  /\ \E k \in 1..Len(items) : items[k].id = id /\ items[k].status # "generating"
  /\ ~isGenerating
  /\ StartRun(TRUE, {id}, SetStatus(items, id, "queued"))

\* waitWhilePaused finds the pause lifted
Resume(n) ==
  /\ runs[n].pc = "paused"
  /\ ~pauseRef
  /\ runs' = [runs EXCEPT ![n].pc = "base64"]
  /\ items' = SetStatus(items, runs[n].item, "generating")
  /\ UNCHANGED <<apiKeys, activeKeyIndex, isGenerating, isPaused, pauseRef, now, lastAt,
                 requests, nextId>>
  /\ UNCHANGED <<embedVars, zipVars>>

\* fileToBase64 resolves, and the first runOnce begins
ImageReady(n) ==
  /\ runs[n].pc = "base64"
  /\ RunOnceBegin(n, runs[n], activeKeyIndex)
  /\ UNCHANGED <<apiKeys, activeKeyIndex, isPaused, pauseRef, now, nextId>>
  /\ UNCHANGED <<embedVars, zipVars>>

\* fileToBase64 rejects: the catch and finally blocks of runGeneration run
ImageFails(n) ==
  /\ runs[n].pc = "base64"
  /\ runs' = [runs EXCEPT ![n] = Ended(runs[n])]
  /\ isGenerating' = FALSE
  /\ UNCHANGED <<apiKeys, activeKeyIndex, items, isPaused, pauseRef, now, lastAt, requests,
                 nextId>>
  /\ UNCHANGED <<embedVars, zipVars>>

\* the sleep of runOnce is over: markRun, and the first request goes out
WakeUp(n) ==
  /\ runs[n].pc = "sleep"
  /\ now >= runs[n].wake
  /\ lastAt' = now
  /\ requests' = Log(requests, [at |-> now, key |-> KeyAt(runs[n], 0), run |-> n])
  /\ runs' = [runs EXCEPT ![n].pc = "request"]
  /\ UNCHANGED <<apiKeys, activeKeyIndex, items, isGenerating, isPaused, pauseRef, now,
                 nextId>>
  /\ UNCHANGED <<embedVars, zipVars>>

\* the provider answers the request number i of a runOnce
Respond(n, result, choice) ==
  /\ runs[n].pc = "request"
  /\ LET r == runs[n]
         key == KeyAt(r, r.i)
         tried == Append(r.tried, [key |-> key, result |-> result])
     IN  IF result.ok
           THEN /\ activeKeyIndex' = key
                /\ AfterOnce(n, [r EXCEPT !.tried = tried,
                                          !.once = [tried |-> tried, ok |-> TRUE,
                                                    before |-> r.activeAtStart,
                                                    after |-> key, done |-> TRUE]],
                             TRUE, choice, key)
         ELSE IF shouldTryNextKey(result) /\ r.i # Len(apiKeys) - 1
           THEN /\ activeKeyIndex' = activeKeyIndex
                /\ choice = "done"
                /\ runs' = [runs EXCEPT ![n] = [r EXCEPT !.i = r.i + 1, !.tried = tried]]
                /\ requests' = Log(requests, [at |-> now, key |-> KeyAt(r, r.i + 1), run |-> n])
                /\ UNCHANGED <<items, isGenerating, lastAt>>
         ELSE /\ activeKeyIndex' = activeKeyIndex
              /\ AfterOnce(n, [r EXCEPT !.tried = tried,
                                        !.once = [tried |-> tried, ok |-> FALSE,
                                                  before |-> r.activeAtStart,
                                                  after |-> activeKeyIndex, done |-> TRUE]],
                           FALSE, choice, activeKeyIndex)
  /\ UNCHANGED <<apiKeys, isPaused, pauseRef, now, nextId>>
  /\ UNCHANGED <<embedVars, zipVars>>

\* onPickFiles with one supported file
PickFiles ==
  /\ nextId <= MaxItems
  /\ items' = Append(items, [id |-> nextId, status |-> "queued"])
  /\ nextId' = nextId + 1
  /\ UNCHANGED <<apiKeys, activeKeyIndex, isGenerating, isPaused, pauseRef, runs, now, lastAt,
                 requests>>
  /\ UNCHANGED <<embedVars, zipVars>>

\* the Clear All button
ClearAll ==
  /\ Len(items) > 0
  /\ items' = <<>>
  /\ isGenerating' = FALSE
  /\ isPaused' = FALSE
  /\ pauseRef' = FALSE
  /\ UNCHANGED <<apiKeys, activeKeyIndex, runs, now, lastAt, requests, nextId>>
  /\ UNCHANGED <<embedVars, zipVars>>

\* the Pause / Resume button
togglePause ==
  /\ Len(items) > 0
  /\ isGenerating
  /\ isPaused' = ~isPaused
  /\ pauseRef' = ~isPaused
  /\ UNCHANGED <<apiKeys, activeKeyIndex, items, isGenerating, runs, now, lastAt, requests,
                 nextId>>
  /\ UNCHANGED <<embedVars, zipVars>>

\* a row's Remove button
RemoveRow(id) ==
  /\ \E k \in 1..Len(items) : items[k].id = id
  /\ items' = SelectSeq(items, LAMBDA x : x.id # id)
  /\ UNCHANGED <<apiKeys, activeKeyIndex, isGenerating, isPaused, pauseRef, runs, now, lastAt,
                 requests, nextId>>
  /\ UNCHANGED <<embedVars, zipVars>>

\* time passes
Tick ==
  /\ now < MaxNow
  /\ now' = now + TickMs
  /\ UNCHANGED <<apiKeys, activeKeyIndex, items, isGenerating, isPaused, pauseRef, runs,
                 lastAt, requests, nextId>>
  /\ UNCHANGED <<embedVars, zipVars>>

InitDash ==
  /\ EmbedIdle
  /\ DownloadIdle
  /\ apiKeys \in {[k \in 1..n |-> k] : n \in 1..MaxKeys}
  /\ activeKeyIndex \in 0..(Len(apiKeys) - 1)
  /\ items = <<>>
  /\ isGenerating = FALSE
  /\ isPaused = FALSE
  /\ pauseRef = FALSE
  /\ runs = <<>>
  /\ now = MinIntervalMs
  /\ lastAt = 0
  /\ requests = <<>>
  /\ nextId = 1

NextDash ==
  \/ PickFiles
  \/ Generate
  \/ RegenerateAll
  \/ \E id \in 1..MaxItems : regenerateRow(id)
  \/ ClearAll
  \/ togglePause
  \/ \E id \in 1..MaxItems : RemoveRow(id)
  \/ Tick
  \/ \E n \in 1..Len(runs) : Resume(n)
  \/ \E n \in 1..Len(runs) : ImageReady(n)
  \/ \E n \in 1..Len(runs) : ImageFails(n)
  \/ \E n \in 1..Len(runs) : WakeUp(n)
  \/ \E n \in 1..Len(runs), result \in {Ok} \cup Errors, choice \in {"done", "error", "repair"} :
       /\ choice \in Choices(runs[n])
       /\ Respond(n, result, choice)

SpecDash == InitDash /\ [][NextDash]_vars

----------------------------------------------------------------------------
(* The download button (DownloadWithEmbeddingButton): phase 2 of            *)
(* handleDownload, which adds the processed files to the ZIP archive        *)

MaxFiles == 3            \* processed files in one download

F_A == <<97, 46, 106, 112, 103>>            \* "a.jpg"
F_A1 == <<97, 45, 49, 46, 106, 112, 103>>   \* "a-1.jpg"
F_B == <<98>>                               \* "b"
F_B1 == <<98, 45, 49>>                      \* "b-1"
F_DotX == <<46, 120>>                       \* ".x"
Filenames == {F_A, F_A1, F_B, F_B1, F_DotX}

\* String(n) for n >= 0
RECURSIVE Decimal(_)
Decimal(n) == IF n < 10 THEN <<48 + n>> ELSE Decimal(n \div 10) \o <<48 + (n % 10)>>

\* s.lastIndexOf(c), from 0, -1 when c is not in s
lastIndexOf(s, c) ==
  LET hits == {k \in 1..Len(s) : s[k] = c}
  IN  IF hits = {} THEN 0 - 1 ELSE (CHOOSE k \in hits : \A h \in hits : k >= h) - 1

\* usedNames.get(filename) || 0 when the files before position i are done
UsedCount(files, i) == Cardinality({k \in 1..(i - 1) : files[k] = files[i]})

\* the name the loop gives the file at position i
FinalName(files, i) ==
  LET filename == files[i]
      count == UsedCount(files, i)
      ext == lastIndexOf(filename, 46)
  IN  IF count > 0
        THEN IF ext > 0
               THEN SubSeq(filename, 1, ext) \o <<45>> \o Decimal(count)
                    \o SubSeq(filename, ext + 1, Len(filename))
             ELSE filename \o <<45>> \o Decimal(count)
      ELSE filename

\* zip.file(name, blob): an entry of that name is replaced
ZipFile(z, name, blob) ==
  IF \E k \in 1..Len(z) : z[k].name = name
    THEN [k \in 1..Len(z) |-> IF z[k].name = name THEN [name |-> name, blob |-> blob] ELSE z[k]]
  ELSE Append(z, [name |-> name, blob |-> blob])

\* the loop over processedFiles from position i on
RECURSIVE AddFilesFrom(_, _, _)
AddFilesFrom(files, i, z) ==
  IF i > Len(files) THEN z
  ELSE AddFilesFrom(files, i + 1, ZipFile(z, FinalName(files, i), i))

\* handleDownload, phase 2
AddToZip ==
  /\ zip = <<>>
  /\ zip' = AddFilesFrom(processedFiles, 1, <<>>)
  /\ UNCHANGED processedFiles
  /\ UNCHANGED <<embedVars, dashVars>>

InitZip ==
  /\ EmbedIdle
  /\ DashboardIdle
  /\ processedFiles \in UNION {[1..n -> Filenames] : n \in 2..MaxFiles}
  /\ zip = <<>>

NextZip == AddToZip
SpecZip == InitZip /\ [][NextZip]_vars

---------------------------------------------------------------------------
(* Readers used to state the claims: what a decoder that follows the       *)
(* declared lengths sees in a buffer                                       *)

StartsWithSOI(d) == Is(d, 0, 255) /\ Is(d, 1, 216)

\* p is the start of an APP0, APP1 or APP13 segment of d
IsSkippedSegmentStart(d, p) ==
  /\ p + 1 < Len(d)
  /\ d[p + 1] = 255
  /\ d[p + 2] \in {224, 225, 237}

\* the first position from p on that is not the start of an APP0, APP1 or
\* APP13 segment, following the declared lengths (a position past the end of
\* the buffer when the last such segment is cut short)
RECURSIVE StopFrom(_, _)
StopFrom(d, p) ==
  IF IsSkippedSegmentStart(d, p) THEN StopFrom(d, p + 2 + SegLen(d, p)) ELSE p

StopOffset(d) == Min(StopFrom(d, 2), Len(d))

\* the complete APP0 segments, as byte strings, among the leading
\* APP0/APP1/APP13 segments of d from p on
RECURSIVE LeadingApp0From(_, _)
LeadingApp0From(d, p) ==
  IF ~IsSkippedSegmentStart(d, p) THEN {}
  ELSE (IF d[p + 2] = 224 /\ p + 4 <= Len(d) /\ p + 2 + SegLen(d, p) <= Len(d)
          THEN {Slice(d, p, p + 2 + SegLen(d, p))} ELSE {})
       \cup LeadingApp0From(d, p + 2 + SegLen(d, p))

\* the start of the leading APP0/APP1/APP13 segment of d whose declared
\* length runs past the end of d, or -1 when there is none
RECURSIVE CutSegmentFrom(_, _)
CutSegmentFrom(d, p) ==
  IF ~IsSkippedSegmentStart(d, p) THEN 0 - 1
  ELSE IF p + 2 + SegLen(d, p) > Len(d) THEN p
  ELSE CutSegmentFrom(d, p + 2 + SegLen(d, p))

\* seg occurs in d as a block of consecutive bytes
Occurs(seg, d) ==
  \E i \in 0..(Len(d) - Len(seg)) : Slice(d, i, i + Len(seg)) = seg

IsSuffix(s, d) == Len(s) <= Len(d) /\ SliceFrom(d, Len(d) - Len(s)) = s

\* the marker segments of d from p up to the start of the scan (SOS), the
\* end of the image (EOI) or the first byte that is no marker:
\* [marker, start] each
RECURSIVE MarkerSegmentsFrom(_, _)
MarkerSegmentsFrom(d, p) ==
  IF ~(p + 3 < Len(d)) \/ d[p + 1] # 255 \/ d[p + 2] \in {217, 218} THEN <<>>
  ELSE <<[marker |-> d[p + 2], start |-> p]>>
       \o MarkerSegmentsFrom(d, p + 2 + SegLen(d, p))

CountApp13(d) ==
  LET segs == MarkerSegmentsFrom(d, 2)
  IN  Cardinality({i \in 1..Len(segs) : segs[i].marker = 237})

CountExifApp1(d) ==
  LET segs == MarkerSegmentsFrom(d, 2)
  IN  Cardinality({i \in 1..Len(segs) :
                     /\ segs[i].marker = 225
                     /\ Slice(d, segs[i].start + 4, segs[i].start + 10) = S_ExifIdent})

---------------------------------------------------------------------------
(* Claims about the JPEG embedder, under SpecJpeg                          *)

\* C2: for every input that starts with SOI, the JPEG embedder's output is
\* exactly SOI, the new EXIF APP1 (if built), the new XMP APP1 (if built and
\* within the size limit), the new APP13, then the input bytes from the stop
\* offset (the first position after SOI that is not the start of an APP0,
\* APP1 or APP13 segment) to the end.
C2_JpegOutputLayout ==
  (pc = "jpeg" /\ StartsWithSOI(input)) =>
    /\ res.kind = "bytes"
    /\ res.bytes = <<255, 216>> \o JpegParts(meta).exifSegment \o JpegParts(meta).xmpSegment
                   \o App13Segment(JpegParts(meta).photoshopBlock)
                   \o SliceFrom(input, StopOffset(input))

\* C3: every APP0 (JFIF) segment that the splice scan passes over in the
\* input is still present, byte for byte, in the output.
C3_App0Kept ==
  (pc = "jpeg" /\ res.kind = "bytes") =>
    \A seg \in LeadingApp0From(input, 2) : Occurs(seg, res.bytes)

\* C6: when a scanned APP0, APP1 or APP13 segment declares a length that
\* runs past the end of the buffer, the embedder does not fail and the input
\* from that segment's start to the end is passed through after the new
\* segments.
C6_CutSegmentPassedThrough ==
  (pc = "jpeg" /\ StartsWithSOI(input) /\ CutSegmentFrom(input, 2) >= 0) =>
    /\ res.kind = "bytes"
    /\ IsSuffix(SliceFrom(input, CutSegmentFrom(input, 2)), res.bytes)

\* C7: for every JPEG input, whatever the order of its header segments, and
\* every metadata with a title, the file produced by one or two embeddings
\* contains exactly one APP13 segment and exactly one APP1 segment
\* identified "Exif".
C7_OneApp13OneExif ==
  (pc = "jpeg" /\ res.kind = "bytes" /\ Len(Trim(meta.title)) > 0) =>
    /\ CountApp13(res.bytes) = 1
    /\ CountExifApp1(res.bytes) = 1


---------------------------------------------------------------------------
(* Claims about the PNG and WebP embedders, under SpecChunked              *)

HasPngSignature(d) == Len(d) >= 8 /\ Slice(d, 0, 8) = PngSignature

\* the chunks a PNG decoder reads in d from pos on, each [type, data, raw],
\* up to the first chunk that is not complete
RECURSIVE PngChunksFrom(_, _)
PngChunksFrom(d, pos) ==
  IF pos + 12 > Len(d) \/ pos + 12 + ReadBE32(d, pos) > Len(d) THEN <<>>
  ELSE LET len == ReadBE32(d, pos)
       IN  <<[type |-> Slice(d, pos + 4, pos + 8),
              data |-> Slice(d, pos + 8, pos + 8 + len),
              raw |-> Slice(d, pos, pos + 12 + len)]>>
           \o PngChunksFrom(d, pos + 12 + len)

PngChunks(d) == PngChunksFrom(d, 8)

RECURSIVE RawOf(_)
RawOf(chunks) == IF Len(chunks) = 0 THEN <<>> ELSE Head(chunks).raw \o RawOf(Tail(chunks))

\* d is a signature followed by complete chunks only, at least one
PngComplete(d) ==
  /\ HasPngSignature(d)
  /\ Len(PngChunks(d)) >= 1
  /\ d = PngSignature \o RawOf(PngChunks(d))

IsTextType(type) == type \in {S_tEXt, S_iTXt, S_zTXt}

RECURSIVE WithoutText(_)
WithoutText(chunks) ==
  IF Len(chunks) = 0 THEN <<>>
  ELSE (IF IsTextType(Head(chunks).type) THEN <<>> ELSE <<Head(chunks)>>)
       \o WithoutText(Tail(chunks))

\* the data of an uncompressed iTXt chunk with no language tag and no
\* translated keyword
ITXtData(keyword, textBytes) == keyword \o <<0, 0, 0, 0, 0>> \o textBytes

\* the [type, data] of the chunks the embedder is to add for a metadata record
ExpectedNewChunks(m) ==
  (IF Len(m.title) > 0
     THEN <<[type |-> S_iTXt, data |-> ITXtData(S_Title, Utf8Encode(m.title))]>> ELSE <<>>)
  \o (IF Len(m.description) > 0
        THEN <<[type |-> S_iTXt, data |-> ITXtData(S_Description, Utf8Encode(m.description))]>>
        ELSE <<>>)
  \o (IF Len(m.keywords) > 0
        THEN <<[type |-> S_iTXt, data |-> ITXtData(S_Comment, Utf8Encode(m.keywords))]>>
        ELSE <<>>)
  \o <<[type |-> S_iTXt,
        data |-> ITXtData(S_XmlComAdobeXmp, Utf8Encode(png_buildXmpPacket(m)))]>>

TypeAndData(chunks) == [i \in 1..Len(chunks) |-> [type |-> chunks[i].type, data |-> chunks[i].data]]

\* C4: for every input with a valid signature whose chunks are all
\* complete, the PNG embedder's output is the signature and IHDR unchanged,
\* then the new iTXt chunks in the order Title, Description, Comment (each
\* only when its field is present) and XML:com.adobe.xmp (always), then the
\* input's remaining chunks without its tEXt, iTXt and zTXt chunks, the
\* others byte-identical and in their original order.
C4_PngOutputLayout ==
  (pc = "png" /\ PngComplete(input)) =>
    /\ res.kind = "bytes"
    /\ PngComplete(res.bytes)
    /\ LET inChunks == PngChunks(input)
           outChunks == PngChunks(res.bytes)
           new == ExpectedNewChunks(meta)
           kept == WithoutText(Tail(inChunks))
       IN  /\ Len(outChunks) = 1 + Len(new) + Len(kept)
           /\ outChunks[1].raw = inChunks[1].raw
           /\ TypeAndData(SubSeq(outChunks, 2, 1 + Len(new))) = new
           /\ RawOf(SubSeq(outChunks, 2 + Len(new), Len(outChunks))) = RawOf(kept)

\* a complete input with a text chunk between two other chunks, and a title,
\* a description and keywords to embed
C4_Witness ==
  /\ pc = "png" /\ calls = 1 /\ res.kind = "bytes" /\ PngComplete(input)
  /\ Len(meta.title) > 0 /\ Len(meta.description) > 0 /\ Len(meta.keywords) > 0
  /\ LET c == PngChunks(input)
     IN  /\ Len(c) >= 4
         /\ ~IsTextType(c[2].type) /\ IsTextType(c[3].type) /\ ~IsTextType(c[4].type)

\* the position in d, from pos on, of the first chunk whose declared length
\* runs past the end of d, or -1: chunks of 12 + length bytes (PNG)
RECURSIVE PngCutFrom(_, _)
PngCutFrom(d, pos) ==
  IF pos + 8 > Len(d) THEN 0 - 1
  ELSE IF pos + 12 + ReadBE32(d, pos) > Len(d) THEN pos
  ELSE PngCutFrom(d, pos + 12 + ReadBE32(d, pos))

\* the same for chunks of 8 + size + pad bytes (RIFF), where a missing last
\* pad byte is not a cut
RECURSIVE RiffCutFrom(_, _)
RiffCutFrom(d, pos) ==
  IF pos + 8 > Len(d) THEN 0 - 1
  ELSE LET size == readU32LE(d, pos + 4)
       IN  IF pos + 8 + size > Len(d) THEN pos
           ELSE RiffCutFrom(d, pos + 8 + size + (size % 2))

HasRiffWebp(d) ==
  Len(d) >= 12 /\ Slice(d, 0, 4) = S_RIFF /\ Slice(d, 8, 12) = S_WEBP

\* C5: in the PNG and WebP embedders, when a scanned chunk's declared
\* length runs past the end of the buffer, every input byte from that
\* chunk's start to the end of the buffer appears unchanged in the output.
C5_CutChunkPassedThrough ==
  /\ (pc = "png" /\ HasPngSignature(input) /\ res.kind = "bytes"
      /\ PngCutFrom(input, 8) >= 0)
       => Occurs(SliceFrom(input, PngCutFrom(input, 8)), res.bytes)
  /\ (pc = "webp" /\ HasRiffWebp(input) /\ res.kind = "bytes"
      /\ RiffCutFrom(input, 12) >= 0)
       => Occurs(SliceFrom(input, RiffCutFrom(input, 12)), res.bytes)

\* number of chunks of the given type whose data starts with keyword NUL
CountKeyed(chunks, type, keyword) ==
  Cardinality({i \in 1..Len(chunks) :
                 /\ chunks[i].type = type
                 /\ Slice(chunks[i].data, 0, Len(keyword) + 1) = keyword \o <<0>>})

CountType(chunks, type) == Cardinality({i \in 1..Len(chunks) : chunks[i].type = type})

\* exactly one iTXt chunk keyed keyword, holding the field's text
OneITXt(chunks, keyword, field) ==
  /\ CountKeyed(chunks, S_iTXt, keyword) = 1
  /\ \E i \in 1..Len(chunks) :
       chunks[i].type = S_iTXt /\ chunks[i].data = ITXtData(keyword, Utf8Encode(field))

\* C8: after embedding the same metadata one or more times in a PNG whose
\* chunks are complete, the output holds no tEXt and no zTXt chunk, exactly
\* one iTXt chunk for each of Title, Description and Comment whose field is
\* present, with the field text as its value, and exactly one iTXt chunk
\* keyed XML:com.adobe.xmp.
C8_PngOneOfEach ==
  (pc = "png" /\ PngComplete(file.bytes)) =>
    /\ res.kind = "bytes"
    /\ PngComplete(res.bytes)
    /\ LET chunks == PngChunks(res.bytes)
       IN  /\ CountType(chunks, S_tEXt) = 0
           /\ CountType(chunks, S_zTXt) = 0
           /\ Len(meta.title) > 0 => OneITXt(chunks, S_Title, meta.title)
           /\ Len(meta.description) > 0 => OneITXt(chunks, S_Description, meta.description)
           /\ Len(meta.keywords) > 0 => OneITXt(chunks, S_Comment, meta.keywords)
           /\ CountKeyed(chunks, S_iTXt, S_XmlComAdobeXmp) = 1

\* a second embedding, in a file that came with tEXt, iTXt and zTXt chunks
C8_Witness ==
  /\ pc = "png" /\ calls = 2 /\ res.kind = "bytes" /\ PngComplete(file.bytes)
  /\ Len(meta.title) > 0 /\ Len(meta.keywords) > 0
  /\ \E t \in {S_tEXt, S_iTXt, S_zTXt} : CountType(PngChunks(file.bytes), t) > 0

\* the total of 8 + declared size + pad over the chunks of d from pos on, as
\* a reader following the declared sizes finds them; -1 when a chunk runs
\* past the end of d or fewer than 8 bytes are left over
RECURSIVE RiffDeclaredTotal(_, _)
RiffDeclaredTotal(d, pos) ==
  IF pos = Len(d) THEN 0
  ELSE IF pos + 8 > Len(d) THEN 0 - 1
  ELSE LET size == readU32LE(d, pos + 4)
           total == 8 + size + (size % 2)
           rest == IF pos + total > Len(d) THEN 0 - 1 ELSE RiffDeclaredTotal(d, pos + total)
       IN  IF rest < 0 THEN 0 - 1 ELSE total + rest

\* C10: for every input the WebP signature check accepts, the little-endian
\* size at output bytes 4-7 equals the output length minus 8 and equals 4
\* plus the sum of the total lengths (8 + declared size + pad) of the
\* output's chunks, so that every chunk of the output starts at an even
\* offset.
C10_WebpSizes ==
  (pc = "webp" /\ HasRiffWebp(input)) =>
    /\ res.kind = "bytes"
    /\ readU32LE(res.bytes, 4) = Len(res.bytes) - 8
    /\ readU32LE(res.bytes, 4) = 4 + RiffDeclaredTotal(res.bytes, 12)


---------------------------------------------------------------------------
(* Claims about the orchestrator, under Spec                               *)

\* C1: embedMetadataIntoImage never lets an embedder failure reach its
\* caller: whenever the selected embedder returns null or throws, the call
\* returns, the returned blob holds the original file bytes unchanged and
\* embedded is false; embedded is true only when an embedder returned new
\* bytes, which the blob then holds.
C1_FailureNeverEscapes ==
  pc = "returned" =>
    /\ ret.state = "returned"
    /\ res.kind \in {"null", "throw"} =>
         /\ ret.blob = file.bytes
         /\ ret.type = file.type
         /\ ret.embedded = FALSE
    /\ ret.embedded = TRUE => (res.kind = "bytes" /\ ret.blob = res.bytes)

\* the JPEG embedder was selected and threw on a cut segment
C1_Witness ==
  /\ pc = "returned"
  /\ calls = 1
  /\ res.kind = "throw"
  /\ isJpegFile(file)
  /\ ret.state = "returned"

---------------------------------------------------------------------------
(* Claims about the lengths the JPEG embedder writes, under SpecJpegLong   *)

\* the marker segments the embedder builds for a metadata record, in the
\* order it emits them
EmittedSegments(metadata) ==
  LET parts == JpegParts(metadata)
  IN  (IF Len(parts.exifSegment) > 0 THEN <<parts.exifSegment>> ELSE <<>>)
      \o (IF Len(parts.xmpSegment) > 0 THEN <<parts.xmpSegment>> ELSE <<>>)
      \o <<App13Segment(parts.photoshopBlock)>>

\* the 2-byte big-endian length field behind a segment's marker
DeclaredLength(seg) == 256 * seg[3] + seg[4]

\* C9: every marker segment the JPEG embedder emits (EXIF APP1, XMP APP1,
\* APP13) carries a 2-byte big-endian length field equal to its byte count
\* after the marker, for metadata of every size.
C9_SegmentLengthsExact ==
  (pc = "jpeg" /\ res.kind = "bytes") =>
    LET segs == EmittedSegments(meta)
        all == Flatten(segs)
    IN  /\ Slice(res.bytes, 2, 2 + Len(all)) = all
        /\ \A i \in 1..Len(segs) : DeclaredLength(segs[i]) = Len(segs[i]) - 2

---------------------------------------------------------------------------
(* Claims about the WebP chunk list, under SpecChunked                     *)

\* the chunks of a RIFF body as a reader following the declared sizes finds
\* them from pos on: records [id, raw], raw being the chunk's 8 + size + pad
\* bytes (a pad byte missing at the very end of d is left out); reading
\* stops at a chunk whose data runs past the end of d
RECURSIVE RiffChunksFrom(_, _)
RiffChunksFrom(d, pos) ==
  IF pos + 8 > Len(d) THEN <<>>
  ELSE LET size == readU32LE(d, pos + 4)
           total == 8 + size + (size % 2)
       IN  IF pos + 8 + size > Len(d) THEN <<>>
           ELSE <<[id |-> Slice(d, pos, pos + 4), raw |-> Slice(d, pos, pos + total)]>>
                \o RiffChunksFrom(d, pos + total)

NotXmp(chunks) ==
  LET keep == {i \in 1..Len(chunks) : chunks[i].id # S_XMPsp}
      F[i \in 0..Len(chunks)] ==
        IF i = 0 THEN <<>>
        ELSE IF i \in keep THEN Append(F[i - 1], chunks[i].raw) ELSE F[i - 1]
  IN  F[Len(chunks)]

\* C11: after one or more WebP embeddings the output contains exactly one
\* "XMP " chunk, it is the last chunk of the file, and every other complete
\* chunk of the input appears before it, byte-identical and in its original
\* order.
C11_WebpOneXmpLast ==
  (pc = "webp" /\ HasRiffWebp(input)) =>
    /\ res.kind = "bytes"
    /\ LET out == RiffChunksFrom(res.bytes, 12)
           n == Len(out)
       IN  /\ n >= 1
           /\ out[n].id = S_XMPsp
           /\ Cardinality({i \in 1..n : out[i].id = S_XMPsp}) = 1
           /\ 12 + Len(Flatten([i \in 1..n |-> out[i].raw])) = Len(res.bytes)
           /\ NotXmp(out) = NotXmp(RiffChunksFrom(input, 12))

---------------------------------------------------------------------------
(* Claims about the GIF embedder, under SpecGif                            *)

HasGifSignature(d) == Slice(d, 0, 6) = S_GIF87a \/ Slice(d, 0, 6) = S_GIF89a

\* the offset the claim names: 13, plus 3 * 2^(N+1) when the high bit of
\* the byte at offset 10 is set, N being its low 3 bits
GifOffset(d) ==
  IF Len(d) > 10 /\ (d[11] \div 128) % 2 = 1 THEN 13 + 3 * 2 ^ ((d[11] % 8) + 1) ELSE 13

\* the offset behind the sub-blocks that start at pos in d, terminator
\* included, or -1 when d ends before the terminator
RECURSIVE SubBlocksEnd(_, _)
SubBlocksEnd(d, pos) ==
  IF pos >= Len(d) THEN 0 - 1
  ELSE IF d[pos + 1] = 0 THEN pos + 1
  ELSE SubBlocksEnd(d, pos + 1 + d[pos + 1])

\* the bytes carried by the sub-blocks that start at pos in d
RECURSIVE SubBlocksData(_, _)
SubBlocksData(d, pos) ==
  IF pos >= Len(d) \/ d[pos + 1] = 0 THEN <<>>
  ELSE Slice(d, pos + 1, pos + 1 + d[pos + 1]) \o SubBlocksData(d, pos + 1 + d[pos + 1])

\* d is exactly one Comment Extension: introducer, label, sub-blocks of 1 to
\* 255 bytes, terminator
IsCommentExtension(d) ==
  /\ Len(d) >= 4
  /\ d[1] = 33 /\ d[2] = 254
  /\ SubBlocksEnd(d, 2) = Len(d)

\* d is exactly one XMP Application Extension: introducer, label, block
\* size 11, "XMP DataXMP", the packet, then 01, the bytes 255 down to 0,
\* and the terminator 00
IsXmpApplicationExtension(d) ==
  /\ Len(d) >= 14 + 258
  /\ Slice(d, 0, 3) = <<33, 255, 11>>
  /\ Slice(d, 3, 14) = S_XmpDataXmp
  /\ SliceFrom(d, Len(d) - 258) = <<1>> \o [i \in 1..256 |-> 256 - i] \o <<0>>
  /\ SubBlocksEnd(d, 14) = Len(d)

HasText(m) == Len(m.title) > 0 \/ Len(m.description) > 0 \/ Len(m.keywords) > 0

RECURSIVE GifBlocksFrom(_, _)
GifBlocksFrom(d, pos) ==
  IF pos + 2 > Len(d) THEN <<>>
  ELSE IF d[pos + 1] = 33
    THEN LET end == SubBlocksEnd(d, pos + 2)
             kind == IF d[pos + 2] = 254 THEN "comment"
                     ELSE IF d[pos + 2] = 255
                             /\ Slice(d, pos + 2, pos + 14) = <<11>> \o S_XmpDataXmp
                       THEN "xmp"
                     ELSE "extension"
         IN  IF end < 0 THEN <<>> ELSE <<kind>> \o GifBlocksFrom(d, end)
  ELSE IF d[pos + 1] = 44
    THEN LET packed == ByteAt(d, pos + 9)
             table == IF packed >= 128 THEN 3 * 2 ^ ((packed % 8) + 1) ELSE 0
             end == SubBlocksEnd(d, pos + 10 + table + 1)
         IN  IF end < 0 THEN <<>> ELSE <<"image">> \o GifBlocksFrom(d, end)
  ELSE <<>>

CountGifBlocks(d, kind) ==
  LET blocks == GifBlocksFrom(d, GifOffset(d))
  IN  Cardinality({i \in 1..Len(blocks) : blocks[i] = kind})

---------------------------------------------------------------------------
(* Claims about the orchestrator's choice of embedder, under Spec          *)

HasSupportedSignature(d) ==
  StartsWithSOI(d) \/ HasPngSignature(d) \/ HasGifSignature(d) \/ HasRiffWebp(d)

\* C14: the orchestrator selects the embedder from the buffer's leading
\* signature, whatever the file's name or declared MIME type: the outcome it
\* works with is that of the JPEG embedder for a buffer starting FF D8, of
\* the PNG embedder for one starting with the PNG signature, of the GIF
\* embedder for one starting GIF87a or GIF89a, of the WebP embedder for one
\* with RIFF at 0-3 and WEBP at 8-11, and only a buffer with no supported
\* signature goes without an embedder.
C14_SelectedBySignature ==
  (pc = "returned" /\ settings.enabled) =>
    /\ StartsWithSOI(file.bytes) => res = embedJpegMetadata(file.bytes, meta)
    /\ HasPngSignature(file.bytes) => res = embedPngMetadata(file.bytes, meta)
    /\ HasGifSignature(file.bytes) => res = embedGifMetadata(file.bytes, meta)
    /\ HasRiffWebp(file.bytes) => res = embedWebpMetadata(file.bytes, meta)
    /\ calls = 0 => ~HasSupportedSignature(file.bytes)

---------------------------------------------------------------------------
(* Claims about the IPTC and EXIF blocks of the JPEG embedder              *)

\* the start of the first APP13 segment of d that carries the Photoshop
\* identifier, or -1
FirstApp13(d) ==
  LET segs == MarkerSegmentsFrom(d, 2)
      hits == {i \in 1..Len(segs) :
                 /\ segs[i].marker = 237
                 /\ Slice(d, segs[i].start + 4, segs[i].start + 18) = Utf8Encode(S_Photoshop30)}
  IN  IF hits = {} THEN 0 - 1
      ELSE segs[CHOOSE i \in hits : \A j \in hits : i <= j].start

\* the IPTC datasets between pos and end in d, as a reader following the
\* 2-byte length fields finds them: [tag, value, next] each, next being the
\* offset behind the dataset
RECURSIVE IptcDatasetsFrom(_, _, _)
IptcDatasetsFrom(d, pos, end) ==
  IF pos + 5 > end \/ d[pos + 1] # 28 \/ d[pos + 2] # 2 THEN <<>>
  ELSE LET len == 256 * d[pos + 4] + d[pos + 5]
       IN  <<[tag |-> d[pos + 3], value |-> Slice(d, pos + 5, Min(pos + 5 + len, end)),
              next |-> pos + 5 + len]>>
           \o IptcDatasetsFrom(d, pos + 5 + len, end)

\* the most bytes the value of an IPTC dataset may take, by tag
IptcLimit(tag) ==
  IF tag = 5 THEN 64          \* Object Name
  ELSE IF tag = 105 THEN 256  \* Headline
  ELSE IF tag = 120 THEN 2000 \* Caption-Abstract
  ELSE IF tag = 15 THEN 3     \* Category
  ELSE 64                     \* Keywords

\* C15: for every title, description, category and keyword text, also one
\* whose characters take several bytes in UTF-8, the IPTC dataset values the
\* JPEG embedder emits are at most 64 bytes for Object Name, 256 for
\* Headline, 2000 for Caption-Abstract, 3 for Category and 64 for each
\* Keyword, and each dataset's 2-byte length field equals its value's byte
\* count.
C15_IptcTruncation ==
  (pc = "jpeg" /\ res.kind = "bytes") =>
    LET d == res.bytes
        s == FirstApp13(d)
        size == ReadBE32(d, s + 26)
        ds == IptcDatasetsFrom(d, s + 30, s + 30 + size)
    IN  /\ s >= 0
        /\ Slice(d, s + 18, s + 24) = Utf8Encode(S_8BIM) \o <<4, 4>>
        /\ \A i \in 1..Len(ds) : Len(ds[i].value) <= IptcLimit(ds[i].tag)
        /\ IF Len(ds) = 0 THEN size = 0 ELSE ds[Len(ds)].next = s + 30 + size

\* the start of the first APP1 segment of d that carries the Exif
\* identifier, or -1
FirstExifApp1(d) ==
  LET segs == MarkerSegmentsFrom(d, 2)
      hits == {i \in 1..Len(segs) :
                 /\ segs[i].marker = 225
                 /\ Slice(d, segs[i].start + 4, segs[i].start + 10) = S_ExifIdent}
  IN  IF hits = {} THEN 0 - 1
      ELSE segs[CHOOSE i \in hits : \A j \in hits : i <= j].start

ReadLE16(d, off) == ByteAt(d, off) + 256 * ByteAt(d, off + 1)

\* the TIFF block of the EXIF segment that starts at s in d: the bytes
\* behind the identifier, up to the end the segment's length field gives
TiffBlock(d, s) == Slice(d, s + 10, s + 2 + SegLen(d, s))

\* the IFD entries of a little-endian TIFF block whose IFD is at offset 8:
\* [tag, type, count, field] each, field being the 4-byte value field
IfdOf(t) ==
  [i \in 1..ReadLE16(t, 8) |->
     LET e == 10 + 12 * (i - 1)
     IN  [tag |-> ReadLE16(t, e), type |-> ReadLE16(t, e + 2),
          count |-> readU32LE(t, e + 4), field |-> Slice(t, e + 8, e + 12)]]

\* the tags the EXIF block is to carry for the fields present
ExpectedExifTags(title, description, keywords) ==
  (IF Len(title) > 0 \/ Len(description) > 0 THEN {270, 40092} ELSE {})
  \cup (IF Len(title) > 0 THEN {40091, 40095} ELSE {})
  \cup (IF Len(keywords) > 0 THEN {40094} ELSE {})

\* C16: for every combination of present fields (title, description,
\* keywords) the IFD entries serialized in the EXIF block of the JPEG
\* embedder's output are strictly ascending by tag, no tag appears twice,
\* and the entry count written before them equals the number of entries:
\* one per tag the present fields call for, followed by the four zero bytes
\* that end the IFD.
C16_IfdSortedAndCounted ==
  (pc = "jpeg" /\ res.kind = "bytes"
   /\ ExpectedExifTags(meta.title, meta.description, meta.keywords) # {}) =>
    LET s == FirstExifApp1(res.bytes)
        t == TiffBlock(res.bytes, s)
        ifd == IfdOf(t)
        n == Len(ifd)
    IN  /\ s >= 0
        /\ Slice(t, 0, 8) = <<73, 73, 42, 0, 8, 0, 0, 0>>
        /\ \A i \in 1..(n - 1) : ifd[i].tag < ifd[i + 1].tag
        /\ \A i, j \in 1..n : ifd[i].tag = ifd[j].tag => i = j
        /\ {ifd[i].tag : i \in 1..n}
             = ExpectedExifTags(meta.title, meta.description, meta.keywords)
        /\ n = Cardinality(ExpectedExifTags(meta.title, meta.description, meta.keywords))
        /\ Slice(t, 10 + 12 * n, 14 + 12 * n) = <<0, 0, 0, 0>>

\* title, description and keywords all present: five entries
C16_Witness ==
  /\ pc = "jpeg" /\ res.kind = "bytes" /\ calls = 1
  /\ Len(meta.title) > 0 /\ Len(meta.description) > 0 /\ Len(meta.keywords) > 0
  /\ Len(IfdOf(TiffBlock(res.bytes, FirstExifApp1(res.bytes)))) = 5

\* the bytes of an IFD entry's value in the TIFF block t: count bytes, in
\* the value field when count <= 4, else at the offset the field holds
\* (types 1 and 2 take one byte per unit of count)
ValueOf(t, e) ==
  IF e.count <= 4 THEN Slice(e.field, 0, e.count)
  ELSE Slice(t, readU32LE(e.field, 0), readU32LE(e.field, 0) + e.count)

\* the code units of UTF-16LE bytes, up to the null terminator
RECURSIVE DecodeUtf16LE(_)
DecodeUtf16LE(b) ==
  IF Len(b) < 2 \/ (b[1] = 0 /\ b[2] = 0) THEN <<>>
  ELSE <<b[1] + 256 * b[2]>> \o DecodeUtf16LE(SubSeq(b, 3, Len(b)))

\* the bytes before the first NUL
RECURSIVE UpToNul(_)
UpToNul(b) == IF Len(b) = 0 \/ b[1] = 0 THEN <<>> ELSE <<b[1]>> \o UpToNul(Tail(b))

\* what an entry's value is to say, by tag, for the texts title, description
\* and the keyword list
ExpectedExifText(tag, title, description, keywordList) ==
  IF tag \in {40091, 40095} THEN title
  ELSE IF tag \in {270, 40092} THEN (IF Len(description) > 0 THEN description ELSE title)
  ELSE Join(keywordList, S_KwJoin)

\* C17: every IFD entry of the EXIF block is self-consistent: reading count
\* bytes at its value location (inside the entry's 4-byte value field when
\* count <= 4, otherwise at the entry's offset measured from the TIFF header
\* start) yields the field's encoded value, null terminator included
\* (UTF-8 for ImageDescription, UTF-16LE for the XP tags); out-of-line
\* values start at even offsets behind the IFD, do not overlap and lie
\* inside the TIFF block; when a title is present the entry with tag 0x9C9B
\* decodes as UTF-16LE to the title.
C17_ExifSelfConsistent ==
  (pc = "jpeg" /\ res.kind = "bytes"
   /\ ExpectedExifTags(meta.title, meta.description, meta.keywords) # {}) =>
    LET s == FirstExifApp1(res.bytes)
        t == TiffBlock(res.bytes, s)
        ifd == IfdOf(t)
        n == Len(ifd)
        off(i) == readU32LE(ifd[i].field, 0)
        far == {i \in 1..n : ifd[i].count > 4}
        keywordList == FilterNonBlank(SplitComma(meta.keywords))
        text(i) == ExpectedExifText(ifd[i].tag, Trim(meta.title), Trim(meta.description),
                                    keywordList)
    IN  /\ s >= 0
        /\ \A i \in 1..n :
             LET v == ValueOf(t, ifd[i])
             IN  /\ Len(v) = ifd[i].count
                 /\ IF ifd[i].tag = 270
                      THEN /\ ifd[i].type = 2
                           /\ v = Utf8Encode(text(i)) \o <<0>>
                           /\ Utf8Decode(UpToNul(v)) = text(i)
                      ELSE /\ ifd[i].type = 1
                           /\ ifd[i].count = 2 * Len(text(i)) + 2
                           /\ DecodeUtf16LE(v) = text(i)
                           /\ SubSeq(v, Len(v) - 1, Len(v)) = <<0, 0>>
                 /\ ifd[i].count <= 4 =>
                      SubSeq(ifd[i].field, ifd[i].count + 1, 4) = Zeros(4 - ifd[i].count)
        /\ \A i \in far :
             /\ off(i) % 2 = 0
             /\ off(i) >= 14 + 12 * n
             /\ off(i) + ifd[i].count <= Len(t)
        /\ \A i, j \in far :
             i < j => off(i) + ifd[i].count <= off(j)
        /\ Len(meta.title) > 0 =>
             \E i \in 1..n : ifd[i].tag = 40091 /\ DecodeUtf16LE(ValueOf(t, ifd[i])) = meta.title

\* a one-character title next to a description of odd encoded length and
\* keywords: values inside the value field, and values behind the IFD of
\* which one needs a pad byte
C17_Witness ==
  /\ pc = "jpeg" /\ res.kind = "bytes" /\ calls = 1
  /\ Len(meta.title) = 1 /\ Len(meta.keywords) > 1
  /\ LET ifd == IfdOf(TiffBlock(res.bytes, FirstExifApp1(res.bytes)))
     IN  /\ \E i \in 1..Len(ifd) : ifd[i].count <= 4
         /\ \E i, j \in 1..Len(ifd) :
              i < j /\ ifd[i].count > 4 /\ ifd[i].count % 2 = 1 /\ ifd[j].count > 4

---------------------------------------------------------------------------
(* Claims about an XMP packet too long for a segment, under SpecJpegXmp    *)

\* the length the XMP APP1 segment's length field would have to hold: 2,
\* the identifier bytes and the packet bytes
XmpSegmentLength(metadata) ==
  2 + Len(Utf8Encode(S_XapIdent))
  + Len(Utf8Encode(jpeg_xmpPacket(
      [title |-> Trim(metadata.title),
       description |-> IF Len(Trim(metadata.description)) > 0
                         THEN Trim(metadata.description) ELSE Trim(metadata.title),
       label |-> Trim(metadata.title),
       altText |-> IF Len(Trim(metadata.altText)) > 0 THEN Trim(metadata.altText)
                   ELSE IF Len(Trim(metadata.description)) > 0
                     THEN Trim(metadata.description)
                   ELSE Trim(metadata.title),
       keywords |-> FilterNonBlank(SplitComma(metadata.keywords))])))

\* d from offset p on starts with an APP1 segment carrying the Exif
\* identifier
IsExifApp1At(d, p) ==
  Slice(d, p, p + 2) = <<255, 225>> /\ Slice(d, p + 4, p + 10) = S_ExifIdent

IsApp13At(d, p) ==
  Slice(d, p, p + 2) = <<255, 237>> /\ Slice(d, p + 4, p + 18) = Utf8Encode(S_Photoshop30)

\* C18: when the XMP APP1 segment length (2 + identifier bytes + packet
\* bytes) would exceed 65535, the XMP segment is omitted and the embed still
\* proceeds: the output is SOI, the new EXIF APP1 when a title, description
\* or keyword is present, then the new APP13 directly followed by the
\* original remainder, and the XMP identifier occurs nowhere in it.
C18_XmpOmittedOnOverflow ==
  (pc = "jpeg" /\ XmpSegmentLength(meta) > 65535) =>
    /\ res.kind = "bytes"
    /\ LET d == res.bytes
           rest == SliceFrom(input, StopOffset(input))
           exifBuilt == ExpectedExifTags(meta.title, meta.description, meta.keywords) # {}
       IN  /\ Slice(d, 0, 2) = <<255, 216>>
           /\ IsSuffix(rest, d)
           /\ \E a \in 2..(Len(d) - Len(rest)) :
                /\ IsApp13At(d, a)
                /\ a + 2 + SegLen(d, a) + Len(rest) = Len(d)
                /\ IF exifBuilt THEN a > 2 /\ IsExifApp1At(d, 2) ELSE a = 2
           /\ ~Occurs(Utf8Encode(S_XapIdent), d)

\* an altText one byte too long next to a title for which an EXIF block
\* is built
C18_Witness ==
  /\ pc = "jpeg" /\ calls = 1 /\ res.kind = "bytes"
  /\ Len(meta.title) = XmpTitle
  /\ XmpSegmentLength(meta) = 65536
  /\ IsExifApp1At(res.bytes, 2)

---------------------------------------------------------------------------
(* Claims about the chunks the PNG embedder builds, under SpecChunked      *)

\* the IEEE CRC-32 as the PNG specification defines it, bit by bit: the
\* register starts at 0xFFFFFFFF; for each byte, the byte is XORed into the
\* low 8 bits, then 8 times the register is shifted right by one bit and,
\* when the bit shifted out was 1, XORed with 0xEDB88320; the result is the
\* register XOR 0xFFFFFFFF.  Words are four bytes, most significant first.
RECURSIVE StdCrcBits(_, _)
StdCrcBits(c, k) ==
  IF k = 0 THEN c
  ELSE LET shifted == <<c[1] \div 2, (c[2] \div 2) + 128 * (c[1] % 2),
                        (c[3] \div 2) + 128 * (c[2] % 2), (c[4] \div 2) + 128 * (c[3] % 2)>>
       IN  StdCrcBits(IF c[4] % 2 = 1
                        THEN <<XorByte(shifted[1], 237), XorByte(shifted[2], 184),
                               XorByte(shifted[3], 131), XorByte(shifted[4], 32)>>
                        ELSE shifted, k - 1)

RECURSIVE StdCrcOver(_, _, _, _)
StdCrcOver(data, lo, hi, c) ==
  IF lo > hi THEN c
  ELSE IF lo = hi THEN StdCrcBits(<<c[1], c[2], c[3], XorByte(c[4], data[lo])>>, 8)
  ELSE LET mid == (lo + hi) \div 2
           left == StdCrcOver(data, lo, mid, c)
       IN  IF left[4] >= 0 THEN StdCrcOver(data, mid + 1, hi, left) ELSE left

StdCrc32(data) ==
  LET c == StdCrcOver(data, 1, Len(data), <<255, 255, 255, 255>>)
  IN  <<255 - c[1], 255 - c[2], 255 - c[3], 255 - c[4]>>

\* the standard CRC-32 of type + data for each chunk the embedder is to
\* build, by metadata record (computed once for each record)
StdCrcOfNew ==
  [m \in Metas |->
     [i \in 1..Len(ExpectedNewChunks(m)) |->
        StdCrc32(ExpectedNewChunks(m)[i].type \o ExpectedNewChunks(m)[i].data)]]

\* C19: every chunk the PNG embedder builds (the iTXt chunks of its output)
\* has a 4-byte big-endian length equal to its data byte count and a
\* trailing 4-byte big-endian CRC equal to the standard IEEE CRC-32
\* (polynomial 0xEDB88320, initial value and final XOR 0xFFFFFFFF) of its 4
\* type bytes followed by its data bytes.  The CRC reader gives the known
\* values AE 42 60 82 for "IEND" and CB F4 39 26 for "123456789".
C19_PngChunksWellFormed ==
  /\ StdCrc32(T_IEND) = <<174, 66, 96, 130>>
  /\ StdCrc32(<<49, 50, 51, 52, 53, 54, 55, 56, 57>>) = <<203, 244, 57, 38>>
  /\ (pc = "png" /\ HasPngSignature(input)) =>
       /\ res.kind = "bytes"
       /\ LET chunks == PngChunks(res.bytes)
              new == ExpectedNewChunks(meta)
              built == 2..(1 + Len(new))
          IN  /\ Len(chunks) >= 1 + Len(new)
              /\ {i \in 1..Len(chunks) : chunks[i].type = S_iTXt} = built
              /\ \A i \in built :
                   LET c == chunks[i]
                       data == new[i - 1].data
                   IN  /\ Slice(c.raw, 0, 4)
                            = <<0, 0, Len(data) \div 256, Len(data) % 256>>
                       /\ Slice(c.raw, 4, 8) = S_iTXt
                       /\ Slice(c.raw, 8, 8 + Len(data)) = data
                       /\ SliceFrom(c.raw, 8 + Len(data)) = StdCrcOfNew[meta][i - 1]
                       /\ Len(c.raw) = 12 + Len(data)

\* a title, a description and keywords embedded in a PNG that came with text
\* chunks of its own: four chunks built
C19_Witness ==
  /\ pc = "png" /\ res.kind = "bytes" /\ calls = 1
  /\ Len(ExpectedNewChunks(meta)) = 4
  /\ \E i \in 1..Len(PngChunks(input)) : IsTextType(PngChunks(input)[i].type)
  /\ Cardinality({i \in 1..Len(PngChunks(res.bytes)) :
                    PngChunks(res.bytes)[i].type = S_iTXt}) = 4

----------------------------------------------------------------------------
(* The SVG output read back as text *)

\* the index of the ">" closing the first "<svg" tag of text, 0 when none
SvgTagEnd(text) ==
  LET i == IndexFrom(text, S_svgLower, 1, FALSE)
  IN  IF i = 0 THEN 0 ELSE IndexFrom(text, S_Gt, i + 4, FALSE)

HasSvgOpenTag(text) == SvgTagEnd(text) > 0

\* the text behind the opening tag, leading white space dropped
BehindSvgTag(text) == TrimStart(SubSeq(text, SvgTagEnd(text) + 1, Len(text)))

StartsWithText(s, p) == MatchesAt(s, p, 1, FALSE)

CountTitleElements(text) ==
  Cardinality({k \in 1..Len(text) : MatchesAt(text, S_titleOpen, k, TRUE)})

\* C20: for an SVG text with an opening <svg ...> tag and any title, the
\* output holds <title>T</title>, T the XML-escaped title, directly behind
\* the opening tag, then a <metadata> block whose dc:title holds the same T,
\* and no other title element
C20_SvgTitleAfterTag ==
  (pc = "svg" /\ Len(meta.title) > 0 /\ HasSvgOpenTag(Utf8Decode(input))) =>
    /\ res.kind = "bytes"
    /\ LET out == Utf8Decode(res.bytes)
           T == escapeXml4(meta.title)
           titleElement == S_titleTag \o T \o S_titleClose
           behind == BehindSvgTag(out)
           rest == TrimStart(SubSeq(behind, Len(titleElement) + 1, Len(behind)))
           close == IndexFrom(rest, S_metadataClose, 1, FALSE)
       IN  /\ HasSvgOpenTag(out)
           /\ StartsWithText(behind, titleElement)
           /\ StartsWithText(rest, S_metadataOpen)
           /\ close > 0
           /\ Includes(SubSeq(rest, 1, close), S_dcTitleOpen \o T \o S_dcTitleClose)
           /\ CountTitleElements(out) = 1

\* how many times pat occurs in text, letter case ignored
CountMatches(text, pat) ==
  Cardinality({k \in 1..Len(text) : MatchesAt(text, pat, k, TRUE)})

\* C21: whenever the SVG embedder returns bytes, the output holds exactly
\* one <metadata>...</metadata> block: one opening and one closing tag, the
\* opening one first; also for inputs that hold a metadata block already and
\* for the embedder's own output
C21_SvgOneMetadataBlock ==
  (pc = "svg" /\ res.kind = "bytes") =>
    LET out == Utf8Decode(res.bytes)
    IN  /\ CountMatches(out, S_metadataOpen) = 1
        /\ CountMatches(out, S_metadataClose) = 1
        /\ IndexFrom(out, S_metadataOpen, 1, TRUE) < IndexFrom(out, S_metadataClose, 1, TRUE)

\* the comma-split of k yields no non-empty entry: k is empty, or starts
\* with a comma and holds nothing but commas and white space
NoKeywordEntry(k) ==
  \/ Len(k) = 0
  \/ k[1] = 44 /\ \A i \in 1..Len(k) : k[i] = 44 \/ IsSpace(k[i])

\* C22: the SVG embedder returns null exactly when the text holds neither
\* "<svg" nor "<SVG" or none of title, description and keywords is present
\* (keywords without a non-empty entry count as absent); in every other
\* case it returns bytes
C22_SvgNotApplicable ==
  pc = "svg" =>
    LET text == Utf8Decode(input)
        noSvg == \A k \in 1..Len(text) :
                   ~MatchesAt(text, S_svgLower, k, FALSE) /\ ~MatchesAt(text, S_svgUpper, k, FALSE)
        noFields == /\ Len(meta.title) = 0
                    /\ Len(meta.description) = 0
                    /\ NoKeywordEntry(meta.keywords)
    IN  /\ res.kind \in {"null", "bytes"}
        /\ res.kind = "null" <=> (noSvg \/ noFields)

\* a document with a root tag and keywords of commas only: not applicable
C22_Witness ==
  /\ pc = "svg"
  /\ res = Null
  /\ meta.keywords = T_KwCommas
  /\ Utf8Decode(input) = T_SvgDoc

----------------------------------------------------------------------------
(* Keywords *)

\* the texts of the <rdf:li> items of text, in order
RECURSIVE RdfItemsFrom(_, _)
RdfItemsFrom(text, i) ==
  LET a == IndexFrom(text, S_liOpen, i, FALSE)
      b == IF a = 0 THEN 0 ELSE IndexFrom(text, S_liClose, a + Len(S_liOpen), FALSE)
  IN  IF b = 0 THEN <<>>
      ELSE <<SubSeq(text, a + Len(S_liOpen), b - 1)>> \o RdfItemsFrom(text, b + Len(S_liClose))

\* the comma-split of k, each entry trimmed, the empty ones dropped
TrimmedKeywords(k) ==
  IF Len(k) = 0 THEN <<>> ELSE FilterNonEmpty(TrimEach(SplitOn(k, 44)))

\* the root tag the SVG embedder inserts behind: "<svg", any letter case,
\* with a ">" behind it
HasRootTag(text) ==
  LET i == IndexFrom(text, S_svgLower, 1, TRUE)
  IN  i > 0 /\ IndexFrom(text, S_Gt, i + 4, FALSE) > 0

\* C23: the keyword list an embedder writes to dc:subject / rdf:Bag is the
\* comma-split of the keywords string, each entry trimmed, empty and blank
\* entries dropped, in input order and not deduplicated (stated here for the
\* SVG embedder, which shares its split with the PNG, GIF and WebP ones)
C23_KeywordsTrimmed ==
  (pc = "svg" /\ res.kind = "bytes" /\ HasRootTag(Utf8Decode(input))) =>
    LET expected == TrimmedKeywords(meta.keywords)
    IN  RdfItemsFrom(Utf8Decode(res.bytes), 1)
          = [i \in 1..Len(expected) |-> escapeXml4(expected[i])]

\* C24: the dc:description of the JPEG XMP packet carries the description
\* whenever a non-blank description is present, and the title only when the
\* description is absent
C24_XmpDescriptionCarried ==
  (pc = "jpeg" /\ res.kind = "bytes") =>
    LET description == Trim(meta.description)
        title == Trim(meta.title)
        expected == IF Len(description) > 0 THEN description ELSE title
    IN  Len(expected) > 0 =>
          Occurs(Utf8Encode(S_dcDescOpen \o buildLangAlt(expected) \o S_dcDescClose),
                 res.bytes)

----------------------------------------------------------------------------
(* The Comment Extension read back *)

\* the size bytes of the sub-blocks that start at pos in d, in order
RECURSIVE SubBlockSizes(_, _)
SubBlockSizes(d, pos) ==
  IF pos >= Len(d) \/ d[pos + 1] = 0 THEN <<>>
  ELSE <<d[pos + 1]>> \o SubBlockSizes(d, pos + 1 + d[pos + 1])

\* C25: for a comment of n >= 1 bytes the Comment Extension is 21 FE, then
\* sub-blocks of a size byte L in 1..255 and exactly L data bytes, then one
\* 00 terminator that ends the block; every sub-block but the last has
\* L = 255, and the data bytes together are the UTF-8 bytes of the comment
C25_CommentSubBlocks ==
  pc = "comment" =>
    /\ res.kind = "bytes"
    /\ LET d == res.bytes
           bytes == Utf8Encode(input)
           sizes == SubBlockSizes(d, 2)
       IN  /\ Slice(d, 0, 2) = <<33, 254>>
           /\ SubBlocksEnd(d, 2) = Len(d)
           /\ Len(sizes) = (Len(bytes) + 254) \div 255
           /\ \A i \in 1..Len(sizes) : sizes[i] >= 1 /\ sizes[i] <= 255
           /\ \A i \in 1..(Len(sizes) - 1) : sizes[i] = 255
           /\ SubBlocksData(d, 2) = bytes
           /\ Len(d) = 2 + Len(bytes) + Len(sizes) + 1

\* a comment of two- or three-byte characters, fewer than 255 characters
\* and 258 bytes: one full sub-block and a second one of 3 bytes
C25_Witness ==
  /\ pc = "comment"
  /\ res.kind = "bytes"
  /\ Len(input) < 255
  /\ SubBlockSizes(res.bytes, 2) = <<255, 3>>

----------------------------------------------------------------------------
(* The dashboard *)

ActiveRuns == {n \in 1..Len(runs) : Active(runs[n])}

Generating == {k \in 1..Len(items) : items[k].status = "generating"}

\* C26: an item a generation run sets to "generating" reaches "done" or
\* "error": once every runGeneration has ended, by its loop or through its
\* catch and finally blocks, no item is left in "generating"
C26_NoneLeftGenerating ==
  ActiveRuns = {} => Generating = {}

\* C27: at most one runGeneration loop is active at any time, under every
\* interleaving of the buttons, and isGenerating is true exactly while a
\* run is active
C27_OneRunAtATime ==
  /\ Cardinality(ActiveRuns) <= 1
  /\ isGenerating <=> ActiveRuns # {}

\* C28: any two provider generation requests the dashboard issues are at
\* least 6000 ms apart, those made with different keys inside one runOnce
\* and the repair requests for one item included
C28_RequestsSixSecondsApart ==
  Len(requests) = 2 => requests[2].at - requests[1].at >= MinIntervalMs

\* the keys a runOnce is to try, in order, when the active key index is
\* start and the keys are n: start, start + 1, ... cyclically
CyclicFrom(start, n, len) == [k \in 1..len |-> (start + k - 1) % n]

KeysOf(tried) == [k \in 1..Len(tried) |-> tried[k].key]

Rotates(result) == result.status \in {401, 403, 429}
NeverRotates(result) == result.status \in {400, 413}

\* C29: one runOnce tries the keys in cyclic order starting at the active
\* key index, each at most once; it stops at the first success, at the
\* first error that does not rotate (400 and 413 never rotate; 401, 403 and
\* 429 rotate) or when the keys are exhausted; on success the active key
\* index becomes the index of the key that succeeded, on failure it is
\* unchanged
C29_KeyRotation ==
  \A n \in 1..Len(runs) :
    LET r == runs[n]
        once == r.once
        last == once.tried[Len(once.tried)]
    IN  /\ r.pc = "request" =>
             /\ Len(r.tried) < Len(apiKeys)
             /\ KeysOf(r.tried) \o <<KeyAt(r, r.i)>>
                  = CyclicFrom(r.activeAtStart, Len(apiKeys), Len(r.tried) + 1)
             /\ \A k \in 1..Len(r.tried) :
                  ~r.tried[k].result.ok /\ ~NeverRotates(r.tried[k].result)
        /\ once.done =>
             /\ Len(once.tried) \in 1..Len(apiKeys)
             /\ KeysOf(once.tried) = CyclicFrom(once.before, Len(apiKeys), Len(once.tried))
             /\ \A k \in 1..(Len(once.tried) - 1) :
                  ~once.tried[k].result.ok /\ ~NeverRotates(once.tried[k].result)
             /\ once.ok <=> last.result.ok
             /\ (~once.ok /\ Rotates(last.result)) => Len(once.tried) = Len(apiKeys)
             /\ once.ok => once.after = last.key
             /\ ~once.ok => once.after = once.before

----------------------------------------------------------------------------
(* The ZIP archive *)

\* C30: for every list of processed files, whatever their filenames, the
\* names given to the ZIP entries are pairwise distinct: the archive holds
\* one entry for each file and no file replaces another
C30_ZipNamesDistinct ==
  zip # <<>> =>
    /\ Len(zip) = Len(processedFiles)
    /\ \A i \in 1..Len(processedFiles) : \E k \in 1..Len(zip) : zip[k].blob = i
    /\ \A i, j \in 1..Len(processedFiles) :
         i # j => FinalName(processedFiles, i) # FinalName(processedFiles, j)
=============================================================================
